---- MODULE Spec2Model ----
(***************************************************************************)
(* Model of converters/archive_converters.py: the archive extraction,      *)
(* creation and conversion functions, the backends they delegate to        *)
(* (zipfile, py7zr, rarfile, pyminizip, the 7-Zip and RAR command lines)    *)
(* and the temporary staging directories they own.                         *)
(*                                                                         *)
(* A directory is a function from relative member names (sequences of path *)
(* components) to file contents.  An archive is a record holding its       *)
(* container kind, its ordered member entries, its encryption scheme and    *)
(* password, and whether its bytes are damaged.  A Python exception is the  *)
(* string naming its class (and raise site); "ok" means normal return.      *)
(***************************************************************************)
EXTENDS Integers, Sequences, FiniteSets, TLC

VARIABLES env, files, dirs, tmpdirs, made, log, inst, running, parents, UNRAR_TOOL

vars == <<env, files, dirs, tmpdirs, made, log, inst, running, parents, UNRAR_TOOL>>

(***************************************************************************)
(* Bounds                                                                  *)
(***************************************************************************)
\* number of API calls in one behaviour
MaxCalls == 2
\* number of calls in a behaviour of the conversion specification
MaxConvertCalls == 1
\* deepest nesting of the "extracted" prefix a member name may carry
MaxDepth == 2
\* largest part size, in MiB, split_archive is called with
MaxPartSizeMb == 3
\* size, in MiB, around which the small files to split lie
MaxFileMb == 6
\* size, in MiB, of the large file to split
LargeFileMb == 1000
\* number of requests in a behaviour of the web-layer specification
MaxRequests == 1
\* number of calls in a behaviour of the analysis specification
MaxAnalyzeCalls == 3
\* number of threads that call into the module at the same time
MaxThreads == 2

(***************************************************************************)
(* Values                                                                  *)
(***************************************************************************)
NoPw == "none"
Passwords == {NoPw, "p", "q"}
Levels == {5}
\* the compression levels a caller may pass: the form field is any integer
LevelInputs == {0, 5, 9, 10}
\* the presets the LZMA2 filter of py7zr accepts
Py7zrPresets == 0..9
\* the levels pyminizip documents: 1 to 9, or 0 for the default
PyminizipLevels == 0..9
NoExc == "ok"

NameA == <<"a.txt">>
NameBA == <<"b", "a.txt">>
\* the orders in which a directory walk may list the files
WalkOrders == {<<NameA, NameBA>>, <<NameBA, NameA>>}

EmptyTree == [n \in {} |-> "hello"]
TreeA == [n \in {NameA} |-> "hello"]
TreeAB == [n \in {NameA, NameBA} |-> IF n = NameA THEN "hello" ELSE "world"]
Trees == {EmptyTree, TreeA, TreeAB}

\* one file of a thousand zero bytes
TreeBlank == [n \in {NameA} |-> "blank"]

NoFile == [kind |-> "absent"]

\* a path is its stem followed by its dot-separated suffixes
InZip == <<"in", ".zip">>
In7z == <<"in", ".7z">>
InRar == <<"in", ".rar">>
OutZip == <<"out", ".zip">>
Out7z == <<"out", ".7z">>
OutRar == <<"out", ".rar">>
OutBin == <<"out", ".bin">>
OutTar == <<"out", ".tar">>
OutTarGz == <<"out", ".tar", ".gz">>
OutTgz == <<"out", ".tgz">>
OutGz == <<"out", ".gz">>
\* os.path.join(self.output_dir, "converted.zip")
ConvertedZip == <<"output_dir", "converted", ".zip">>
\* output paths below a directory that may not exist yet
NewZip == <<"new", "out", ".zip">>
New7z == <<"new", "out", ".7z">>
NewRar == <<"new", "out", ".rar">>
NewTar == <<"new", "out", ".tar">>
NewPaths == {NewZip, New7z, NewRar, NewTar}
\* where the web layer saves an upload: UPLOAD/<uuid>_<name>
UpZip == <<"uploads", "u", ".zip">>
Up7z == <<"uploads", "u", ".7z">>
UpRar == <<"uploads", "u", ".rar">>
UpBin == <<"uploads", "u", ".bin">>
UploadPaths == {UpZip, Up7z, UpRar, UpBin}
InPaths == {InZip, In7z, InRar}
OutPaths == {OutZip, Out7z, OutRar, OutBin, OutTar, OutTarGz, OutTgz, OutGz}
Paths == InPaths \cup OutPaths \cup {ConvertedZip} \cup NewPaths \cup UploadPaths

Last(s) == s[Len(s)]

\* Path(p).parent: the working directory unless the path names another
Parent(p) == IF Len(p) = 3 /\ p[1] \in {"new", "output_dir"} THEN p[1] ELSE "."

\* Path(p).suffix.lower()
Suffix(p) == IF Len(p) > 1 THEN Last(p) ELSE ""
\* p.lower().endswith(s)
EndsWith(p, s) == Len(p) > 1 /\ Last(p) = s
\* p.lower().endswith(".tar.gz")
EndsWithTarGz(p) == Len(p) > 2 /\ p[Len(p) - 1] = ".tar" /\ Last(p) = ".gz"

(***************************************************************************)
(* Directories                                                             *)
(***************************************************************************)
WriteFile(tree, name, data) ==
  [n \in (DOMAIN tree) \cup {name} |-> IF n = name THEN data ELSE tree[n]]

\* `tree` with the files of `inner` placed below directory `sub`
Graft(tree, sub, inner) ==
  [n \in (DOMAIN tree) \cup {sub \o m : m \in DOMAIN inner} |->
     IF \E m \in DOMAIN inner : n = sub \o m
     THEN inner[SubSeq(n, Len(sub) + 1, Len(n))]
     ELSE tree[n]]

RECURSIVE StripPrefix(_)
StripPrefix(n) ==
  IF Len(n) > 1 /\ n[1] = "extracted" THEN StripPrefix(Tail(n)) ELSE n

Depth(n) == Len(n) - Len(StripPrefix(n))

Position(order, n) ==
  IF \E i \in 1..Len(order) : order[i] = StripPrefix(n)
  THEN CHOOSE i \in 1..Len(order) : order[i] = StripPrefix(n)
  ELSE Len(order) + 1

WalkKey(order, n) == Position(order, n) * (MaxDepth + 4) + Len(n)

RECURSIVE SortNames(_, _)
SortNames(S, order) ==
  IF S = {} THEN <<>>
  ELSE LET first == CHOOSE n \in S : \A m \in S : WalkKey(order, n) <= WalkKey(order, m)
       IN <<first>> \o SortNames(S \ {first}, order)

\* os.walk(src_dir): the files of the directory, in the order the walk lists them
Walk(tree, order) == SortNames(DOMAIN tree, order)

(***************************************************************************)
(* Archives and the backends that read and write them                      *)
(***************************************************************************)
Archive(kind, entries, enc, pw) ==
  [kind |-> kind, entries |-> entries, enc |-> enc, pw |-> pw, corrupt |-> FALSE]

Damaged(kind) ==
  [kind |-> kind, entries |-> <<>>, enc |-> "none", pw |-> NoPw, corrupt |-> TRUE]

\* the member entries written for the files of `tree`, in walk order
EntriesOf(tree, order) ==
  LET w == Walk(tree, order)
  IN [i \in 1..Len(w) |-> [name |-> w[i], data |-> tree[w[i]]]]

RECURSIVE ExtractEntries(_, _)
ExtractEntries(entries, tree) ==
  IF entries = <<>> THEN tree
  ELSE ExtractEntries(Tail(entries), WriteFile(tree, Head(entries).name, Head(entries).data))

Raise(exc, tree) == [exc |-> exc, tree |-> tree]

\* zipfile.ZipFile(p, "r"); zf.setpassword(pw) when pw; zf.extractall(out)
ZipfileExtractAll(arch, tree, pw) ==
  IF arch.kind = "absent" THEN Raise("FileNotFoundError", tree)
  ELSE IF arch.corrupt \/ arch.kind # "zip" THEN Raise("BadZipFile", tree)
  ELSE IF arch.entries = <<>> THEN Raise(NoExc, tree)
  ELSE IF arch.enc = "aes" THEN Raise("NotImplementedError", tree)
  ELSE IF arch.enc = "zipcrypto" /\ pw = NoPw THEN Raise("RuntimeError:PasswordRequired", tree)
  ELSE IF arch.enc = "zipcrypto" /\ pw # arch.pw THEN Raise("RuntimeError:BadPassword", tree)
  ELSE Raise(NoExc, ExtractEntries(arch.entries, tree))

\* py7zr.SevenZipFile(p, mode='r', password=pw).extractall(path=out)
Py7zrExtractAll(arch, tree, pw) ==
  IF arch.kind = "absent" THEN Raise("FileNotFoundError", tree)
  ELSE IF arch.corrupt \/ arch.kind # "7z" THEN Raise("Bad7zFile", tree)
  ELSE IF arch.entries = <<>> THEN Raise(NoExc, tree)
  ELSE IF arch.enc # "none" /\ pw = NoPw THEN Raise("PasswordRequired", tree)
  ELSE IF arch.enc # "none" /\ pw # arch.pw THEN Raise("LZMAError", tree)
  ELSE Raise(NoExc, ExtractEntries(arch.entries, tree))

\* rarfile.RarFile(p).extractall(out, pwd=pw); rarfile runs a helper tool
RarfileExtractAll(arch, tree, pw, helper) ==
  IF arch.kind = "absent" THEN Raise("FileNotFoundError", tree)
  ELSE IF arch.corrupt \/ arch.kind # "rar" THEN Raise("NotRarFile", tree)
  ELSE IF ~helper THEN Raise("RarCannotExec", tree)
  ELSE IF arch.enc # "none" /\ pw # arch.pw THEN Raise("RarWrongPassword", tree)
  ELSE Raise(NoExc, ExtractEntries(arch.entries, tree))

\* subprocess.run([sevenz, "x", "-p<pw>", "-y", "-o<out>", p], check=True)
SevenZipExtract(arch, tree, pw) ==
  IF arch.kind = "absent" \/ arch.corrupt THEN Raise("CalledProcessError", tree)
  ELSE IF arch.entries # <<>> /\ arch.enc # "none" /\ pw # arch.pw
  THEN Raise("CalledProcessError", tree)
  ELSE Raise(NoExc, ExtractEntries(arch.entries, tree))

\* every member stored under its base name alone
ZipfileWriteBaseName(tree, order) ==
  LET e == EntriesOf(tree, order)
  IN Archive("zip", [i \in 1..Len(e) |-> [name |-> <<Last(e[i].name)>>, data |-> e[i].data]],
             "none", NoPw)

\* zf.write(full, arcname=os.path.relpath(full, src_dir)) for every walked file
ZipfileWrite(tree, order) == Archive("zip", EntriesOf(tree, order), "none", NoPw)

\* archive.writeall(src_dir, arcname): every member is stored below arcname
Py7zrWriteAll(tree, arcname, order, pw) ==
  LET e == EntriesOf(tree, order)
  IN Archive("7z", [i \in 1..Len(e) |-> [name |-> <<arcname>> \o e[i].name, data |-> e[i].data]],
             IF pw = NoPw THEN "none" ELSE "7zaes", pw)

\* pyminizip.compress_multiple(files, prefixes, out, pw, level): a file is
\* stored as <its prefix>/<its base name>, ZipCrypto-encrypted under pw
PyminizipCompressMultiple(tree, prefixOf, order, pw) ==
  LET e == EntriesOf(tree, order)
  IN Archive("zip",
             [i \in 1..Len(e) |-> [name |-> prefixOf[e[i].name] \o <<Last(e[i].name)>>,
                                   data |-> e[i].data]],
             IF pw = NoPw THEN "none" ELSE "zipcrypto", pw)

\* subprocess.run([sevenz, "a", "-tzip", "-p<pw>", out, "<src>/*"], check=True)
SevenZipAddZip(tree, order, pw) == Archive("zip", EntriesOf(tree, order), "zipcrypto", pw)

\* subprocess.run([rar, "a", "-r", "-ep1", "-p<pw>", out, "."], cwd=extract_dir)
RarAdd(tree, order, pw) ==
  Archive("rar", EntriesOf(tree, order), IF pw = NoPw THEN "none" ELSE "rar", pw)

\* the number of bytes of a file's contents, and of its compressed form
ByteLen(data) == IF data = "blank" THEN 1000 ELSE 5

PackedLen(data) == IF data = "blank" THEN 10 ELSE 5

RECURSIVE SumByteLen(_)
SumByteLen(entries) ==
  IF entries = <<>> THEN 0 ELSE ByteLen(Head(entries).data) + SumByteLen(Tail(entries))

RECURSIVE SumPackedLen(_)
SumPackedLen(entries) ==
  IF entries = <<>> THEN 0 ELSE PackedLen(Head(entries).data) + SumPackedLen(Tail(entries))

\* os.path.getsize(archive_path): the container's framing and the packed members
GetSize(arch) ==
  IF arch.corrupt THEN 4
  ELSE 22 + 46 * Len(arch.entries) + SumPackedLen(arch.entries)

\* the member names a reader lists, and the sum of their file_size fields
NameList(arch) == [i \in 1..Len(arch.entries) |-> arch.entries[i].name]

TotalFileSize(arch) == SumByteLen(arch.entries)

\* zipfile.ZipFile(p, 'r'), py7zr.SevenZipFile(p, 'r'), rarfile.RarFile(p):
\* opening reads the member table, which is stored outside the encrypted data
OpenForRead(arch, kind) ==
  IF arch.corrupt \/ arch.kind # kind
  THEN IF kind = "zip" THEN "BadZipFile" ELSE IF kind = "7z" THEN "Bad7zFile" ELSE "NotRarFile"
  ELSE NoExc

(***************************************************************************)
(* The functions of archive_converters.py.  A function takes the world it   *)
(* runs in, w = [files, tmp, made] (the files on disk, the temporary        *)
(* directories that exist, the number created so far), and returns          *)
(* [exc, val, w, tree, trace]: the exception it raised or "ok", the value    *)
(* it returned, the world it leaves, the contents of the directory it wrote  *)
(* into, and the backend attempts it made, in order; an attempt is marked   *)
(* spawned when it ran subprocess.run.                                      *)
(***************************************************************************)
\* Python's None, as a returned path and as a tool that was not found
None == <<>>
NoTool == ""

\* the level of an attempt that takes none
NoLevel == -1

Attempt(strategy, exc, spawned) ==
  [strategy |-> strategy, exc |-> exc, spawned |-> spawned, level |-> NoLevel]

\* an in-process write attempt and the compression level handed to its backend
LevelAttempt(strategy, exc, level) ==
  [strategy |-> strategy, exc |-> exc, spawned |-> FALSE, level |-> level]

Result(exc, val, w, tree, trace) ==
  [exc |-> exc, val |-> val, w |-> w, tree |-> tree, trace |-> trace]

WriteTo(w, path, arch) == [w EXCEPT !.files[path] = arch]

\* os.makedirs(path, exist_ok=True)
_ensure_dir(w, path) == [w EXCEPT !.parents = @ \cup {path}]

\* an external archiver can create its output file: the directory is there,
\* or the archiver is one that makes the directories of its output path
CliCanWrite(w, path, e) == Parent(path) \in w.parents \/ e.mkdirs

\* the file the archiver wrote, in the directory it found or made
CliWriteTo(w, path, arch) == WriteTo(_ensure_dir(w, Parent(path)), path, arch)

\* tempfile.TemporaryDirectory() / mkdtemp(): a directory no one else has
MkTemp(w) == [w EXCEPT !.tmp = @ \cup {w.made + 1}, !.made = @ + 1]

\* a staging directory that is never removed
RmTempSkipped(w, t) == w

\* TemporaryDirectory.__exit__: the directory and all below it are removed
RmTemp(w, t) == [w EXCEPT !.tmp = @ \ {t}]

\* the last candidate found on the search path instead of the first
RECURSIVE _detect_tool_last(_, _)
_detect_tool_last(candidates, path) ==
  IF candidates = <<>> THEN NoTool
  ELSE IF _detect_tool_last(Tail(candidates), path) # NoTool
  THEN _detect_tool_last(Tail(candidates), path)
  ELSE IF Head(candidates) \in path THEN Head(candidates)
  ELSE NoTool

\* shutil.which(name) for each candidate in turn; an executable found is
\* identified by its name
RECURSIVE _detect_tool(_, _)
_detect_tool(candidates, path) ==
  IF candidates = <<>> THEN NoTool
  ELSE IF Head(candidates) \in path THEN Head(candidates)
  ELSE _detect_tool(Tail(candidates), path)

_zip_directory(w, tree, out_zip_path, order) ==
  Result(NoExc, out_zip_path,
         WriteTo(_ensure_dir(w, Parent(out_zip_path)), out_zip_path, ZipfileWrite(tree, order)),
         tree, <<Attempt("zipfile-write", NoExc, FALSE)>>)

\* filters = [{"id": FILTER_LZMA2, "preset": compression_level}]: the level is
\* the preset; SevenZipFile(out, 'w') opens the output, and lzma rejects a
\* preset it does not know ("Invalid compression preset") before any member
\* is written
create_7z_archive(w, tree, arcname, out_7z_path, password, level, order) ==
  IF level \notin Py7zrPresets
  THEN Result("LZMAError:InvalidPreset", None,
              WriteTo(_ensure_dir(w, Parent(out_7z_path)), out_7z_path, Damaged("7z")),
              tree, <<LevelAttempt("py7zr-write", "LZMAError:InvalidPreset", level)>>)
  ELSE Result(NoExc, out_7z_path,
              WriteTo(_ensure_dir(w, Parent(out_7z_path)), out_7z_path,
                      Py7zrWriteAll(tree, arcname, order, password)),
              tree, <<LevelAttempt("py7zr-write", NoExc, level)>>)

extract_7z_archive(w, archive_path, out_dir, tree, password) ==
  LET r == Py7zrExtractAll(w.files[archive_path], tree, password)
  IN Result(r.exc, IF r.exc = NoExc THEN out_dir ELSE None, w, r.tree,
            <<Attempt("py7zr", r.exc, FALSE)>>)

\* the password dropped: the ZIP written by the plain zipfile writer
create_password_protected_zip_plain(w, tree, out_zip_path, password, level, order, e) ==
  _zip_directory(w, tree, out_zip_path, order)

\* pyminizip takes the level as given; one outside 1..9 selects its default
create_password_protected_zip(w, tree, out_zip_path, password, level, order, e) ==
  IF ~e.pyminizip
  THEN Result("ModuleNotFoundError:pyminizip", None, w, tree, <<>>)
  ELSE Result(NoExc, out_zip_path,
              WriteTo(_ensure_dir(w, Parent(out_zip_path)), out_zip_path,
                      PyminizipCompressMultiple(tree, [n \in DOMAIN tree |-> n], order, password)),
              tree, <<LevelAttempt("pyminizip", NoExc, level)>>)

\* `7z a` updates the archive at the output path when a file is there; one
\* it cannot open as an archive makes it exit non-zero, and check=True raises
create_password_zip_alternative(w, tree, out_zip_path, password, order, e) ==
  LET sevenz == _detect_tool(<<"7z", "7za", "7zz">>, e.path)
  IN IF sevenz = NoTool
     THEN Result("RuntimeError:7zRequired", None, w, tree, <<>>)
     ELSE IF (IF w.files[out_zip_path].kind = "absent" THEN ~CliCanWrite(w, out_zip_path, e)
              ELSE w.files[out_zip_path].corrupt)
     THEN Result("CalledProcessError", None, w, tree,
                 <<Attempt("7z-cli-write", "CalledProcessError", TRUE)>>)
     ELSE Result(NoExc, out_zip_path,
                 CliWriteTo(w, out_zip_path, SevenZipAddZip(tree, order, password)),
                 tree, <<Attempt("7z-cli-write", NoExc, TRUE)>>)

\* every failure of the 7-Zip step reported as the tool being absent
_extract_with_7z_not_found(w, archive_path, out_dir, tree, password, e) ==
  LET sevenz == _detect_tool(<<"7z", "7za", "7zz">>, e.path)
      r == SevenZipExtract(w.files[archive_path], tree, password)
  IN IF sevenz = NoTool \/ r.exc # NoExc
     THEN Result("RuntimeError:7zNotFound", None, w, tree,
                 <<Attempt("7z", "RuntimeError:7zNotFound", sevenz # NoTool)>>)
     ELSE Result(NoExc, out_dir, w, r.tree, <<Attempt("7z", NoExc, TRUE)>>)

_extract_with_7z(w, archive_path, out_dir, tree, password, e) ==
  LET sevenz == _detect_tool(<<"7z", "7za", "7zz">>, e.path)
      r == SevenZipExtract(w.files[archive_path], tree, password)
  IN IF sevenz = NoTool
     THEN Result("RuntimeError:7zNotFound", None, w, tree,
                 <<Attempt("7z", "RuntimeError:7zNotFound", FALSE)>>)
     ELSE Result(r.exc, IF r.exc = NoExc THEN out_dir ELSE None, w, r.tree,
                 <<Attempt("7z", r.exc, TRUE)>>)

\* the probe answering for the helper tool as well as the module
_rarfile_can_extract_with_helper(e) == e.rarfile /\ e.helper

\* the value _rarfile_can_extract returns: the module imported (line 10-13)
_rarfile_can_extract(e) == e.rarfile

\* rarfile.UNRAR_TOOL as the module sets it on import
DefaultUnrarTool == "unrar"
\* the path RARFILE_UNRAR_TOOL / UNRAR_PATH names
ConfiguredUnrarTool == "tool_env"

\* what _rarfile_can_extract leaves behind: rarfile.UNRAR_TOOL = tool_env when
\* the module imported, the variable is set and the path exists
UnrarToolAfter(w, e) ==
  IF e.rarfile /\ e.tool_env THEN [w EXCEPT !.unrar_tool = ConfiguredUnrarTool] ELSE w

\* rarfile runs the tool UNRAR_TOOL names: the configured path if it still
\* exists, or the unrar on the search path
HelperFound(w, e) ==
  IF w.unrar_tool = ConfiguredUnrarTool THEN e.tool_env ELSE e.helper

\* tarfile.open(p, "r:*").extractall(out)
TarfileExtractAll(arch, tree) ==
  IF arch.kind = "absent" THEN Raise("FileNotFoundError", tree)
  ELSE IF arch.corrupt \/ arch.kind \notin {"tar", "tar.gz"} THEN Raise("ReadError", tree)
  ELSE Raise(NoExc, ExtractEntries(arch.entries, tree))

\* the .rar branch with the 7-Zip call made whether or not rarfile succeeded
extract_rar_no_return(w, file_path, out_dir, tree, password, e) ==
  LET wc == UnrarToolAfter(w, e)
      rf == RarfileExtractAll(w.files[file_path], tree, password, HelperFound(wc, e))
      s == _extract_with_7z(wc, file_path, out_dir, tree, password, e)
  IN [s EXCEPT !.trace =
        (IF _rarfile_can_extract(e) THEN <<Attempt("rarfile", rf.exc, FALSE)>> ELSE <<>>) \o @]

\* the .rar branch of extract_archive
extract_rar(w, file_path, out_dir, tree, password, e) ==
  LET wc == UnrarToolAfter(w, e)
      rf == RarfileExtractAll(w.files[file_path], tree, password, HelperFound(wc, e))
      s == _extract_with_7z(wc, file_path, out_dir, tree, password, e)
  IN IF _rarfile_can_extract(e) /\ rf.exc = NoExc
     THEN Result(NoExc, out_dir, wc, rf.tree, <<Attempt("rarfile", NoExc, FALSE)>>)
     ELSE [s EXCEPT !.trace =
             (IF _rarfile_can_extract(e) THEN <<Attempt("rarfile", rf.exc, FALSE)>> ELSE <<>>) \o @]

extract_archive(w, file_path, out_dir, tree, password, e) ==
  LET arch == w.files[file_path]
      z == ZipfileExtractAll(arch, tree, password)
      t == TarfileExtractAll(arch, tree)
      s == _extract_with_7z(w, file_path, out_dir, tree, password, e)
  IN IF EndsWith(file_path, ".zip")
     THEN Result(z.exc, IF z.exc = NoExc THEN out_dir ELSE None, w, z.tree,
                 <<Attempt("zipfile", z.exc, FALSE)>>)
     ELSE IF EndsWith(file_path, ".tar") \/ EndsWithTarGz(file_path) \/ EndsWith(file_path, ".tgz")
     THEN Result(t.exc, IF t.exc = NoExc THEN out_dir ELSE None, w, t.tree,
                 <<Attempt("tarfile", t.exc, FALSE)>>)
     ELSE IF EndsWith(file_path, ".rar")
     THEN extract_rar(w, file_path, out_dir, tree, password, e)
     ELSE IF s.exc = NoExc THEN s
     ELSE [s EXCEPT !.exc = "ValueError:UnsupportedOrMissing"]

zip_to_rar(w, zip_file, out_rar_path, password, order, e) ==
  LET rar_cli == _detect_tool(<<"rar", "winrar", "WinRAR">>, e.path)
      w1 == MkTemp(w)
      tmp == w1.made
      z == ZipfileExtractAll(zip_file, EmptyTree, NoPw)
      done == RmTemp(w1, tmp)
  IN IF zip_file.kind = "absent"
     THEN Result("FileNotFoundError", None, w, EmptyTree, <<>>)
     ELSE IF rar_cli = NoTool
     THEN Result("RuntimeError:RarRequired", None, w, EmptyTree, <<>>)
     ELSE IF z.exc # NoExc
     THEN Result(z.exc, None, done, z.tree, <<Attempt("zipfile", z.exc, FALSE)>>)
     ELSE IF DOMAIN z.tree = {} \/ ~CliCanWrite(w, out_rar_path, e)
     THEN Result("CalledProcessError", None, done, z.tree,
                 <<Attempt("zipfile", NoExc, FALSE), Attempt("rar-cli", "CalledProcessError", TRUE)>>)
     ELSE Result(NoExc, out_rar_path,
                 CliWriteTo(done, out_rar_path, RarAdd(z.tree, order, password)), z.tree,
                 <<Attempt("zipfile", NoExc, FALSE), Attempt("rar-cli", NoExc, TRUE)>>)

\* the body of rar_to_zip's `with tempfile.TemporaryDirectory() as tmp` block
\* and the removal of tmp when the block is left
rar_to_zip_staged(w1, tmp, rar_path, out_zip_path, password, order, e) ==
  LET arch == w1.files[rar_path]
      wc == UnrarToolAfter(w1, e)
      rf == RarfileExtractAll(arch, EmptyTree, password, HelperFound(wc, e))
      tried == IF _rarfile_can_extract(e)
               THEN <<Attempt("rarfile", rf.exc, FALSE)>>
               ELSE <<>>
      extracted == _rarfile_can_extract(e) /\ rf.exc = NoExc
      s == _extract_with_7z(wc, rar_path, <<"tmp", "extracted">>, EmptyTree, password, e)
      extract_dir == IF extracted THEN rf.tree ELSE s.tree
      zipped == _zip_directory(wc, extract_dir, out_zip_path, order)
  IN IF ~extracted /\ s.exc # NoExc
     THEN Result(s.exc, None, RmTemp(wc, tmp), EmptyTree, tried \o s.trace)
     ELSE Result(NoExc, out_zip_path, RmTemp(zipped.w, tmp), extract_dir,
                 tried \o (IF extracted THEN <<>> ELSE s.trace) \o zipped.trace)

rar_to_zip(w, rar_path, out_zip_path, password, order, e) ==
  IF w.files[rar_path].kind = "absent"
  THEN Result("FileNotFoundError", None, w, EmptyTree, <<>>)
  ELSE rar_to_zip_staged(MkTemp(w), MkTemp(w).made, rar_path, out_zip_path, password, order, e)

\* tarfile.open(out, mode).add(files_dir, arcname="."): members named ./<relative>
TarfileAdd(tree, order, mode) ==
  LET e == EntriesOf(tree, order)
  IN Archive(IF mode = "w:gz" THEN "tar.gz" ELSE "tar",
             [i \in 1..Len(e) |-> [name |-> e[i].name, data |-> e[i].data]], "none", NoPw)

\* gzip chosen by the ".tar.gz" ending alone
create_archive_by_ending(w, tree, out_path, order) ==
  LET ext == Suffix(out_path)
      w1 == _ensure_dir(w, Parent(out_path))
      mode == IF EndsWithTarGz(out_path) THEN "w:gz" ELSE "w"
  IN IF ext = ".zip" THEN _zip_directory(w1, tree, out_path, order)
     ELSE IF ext \in {".tar", ".gz", ".tgz"}
     THEN Result(NoExc, out_path, WriteTo(w1, out_path, TarfileAdd(tree, order, mode)), tree,
                 <<Attempt("tarfile-write", NoExc, FALSE)>>)
     ELSE Result("ValueError:UnsupportedExtension", None, w1, tree, <<>>)

create_archive(w, tree, out_path, order) ==
  LET ext == Suffix(out_path)
      w1 == _ensure_dir(w, Parent(out_path))
      mode == IF ext \in {".gz", ".tgz"} \/ EndsWithTarGz(out_path) THEN "w:gz" ELSE "w"
  IN IF ext = ".zip" THEN _zip_directory(w1, tree, out_path, order)
     ELSE IF ext \in {".tar", ".gz", ".tgz"}
     THEN Result(NoExc, out_path, WriteTo(w1, out_path, TarfileAdd(tree, order, mode)), tree,
                 <<Attempt("tarfile-write", NoExc, FALSE)>>)
     ELSE Result("ValueError:UnsupportedExtension", None, w1, tree, <<>>)

\* the file a path below the staging directory names
StagingFile(staging, name) ==
  IF name \in DOMAIN staging THEN Damaged("zip") ELSE NoFile

\* the body of convert_archive_format's `with tempfile.TemporaryDirectory()`
\* block and the removal of temp_dir when the block is left
convert_staged(w1, temp_dir, input_path, output_path, password, level, order, e) ==
  LET input_ext == Suffix(input_path)
      output_ext == Suffix(output_path)
      extract_dir == <<"tmp", "extracted">>
      x == IF input_ext \in {".zip", ".rar"}
           THEN extract_archive(w1, input_path, extract_dir, EmptyTree, password, e)
           ELSE IF input_ext = ".7z"
           THEN extract_7z_archive(w1, input_path, extract_dir, EmptyTree, password)
           ELSE Result("ValueError:UnsupportedInput", None, w1, EmptyTree, <<>>)
      staging == Graft(EmptyTree, <<"extracted">>, x.tree)
      c == IF output_ext = ".zip"
           THEN IF password # NoPw
                THEN create_password_protected_zip(w1, x.tree, output_path, password, level, order, e)
                ELSE _zip_directory(w1, x.tree, output_path, order)
           ELSE IF output_ext = ".7z"
           THEN create_7z_archive(w1, x.tree, Last(extract_dir), output_path, password, level, order)
           ELSE IF output_ext = ".rar"
           THEN zip_to_rar(w1, StagingFile(staging, <<"extracted.zip">>), output_path, password, order, e)
           ELSE Result("ValueError:UnsupportedOutput", None, w1, x.tree, <<>>)
  IN IF x.exc # NoExc
     THEN Result(x.exc, None, RmTemp(x.w, temp_dir), x.tree, x.trace)
     ELSE Result(c.exc, c.val, RmTemp(c.w, temp_dir), x.tree, x.trace \o c.trace)

convert_archive_format(w, input_path, output_path, password, level, order, e) ==
  convert_staged(MkTemp(w), MkTemp(w).made, input_path, output_path, password, level, order, e)

\* a quotient kept exact: num / den
Ratio(num, den) == [num |-> num, den |-> den]

\* the percentage left out when the members are laid end to end
CompressionRatioOfSize(size, total_uncompressed) ==
  IF total_uncompressed > 0 THEN Ratio(size * 100, total_uncompressed) ELSE Ratio(0, 1)

\* (1 - info['size'] / info['total_uncompressed']) * 100 when the total is
\* positive, else the initial 0
CompressionRatio(size, total_uncompressed) ==
  IF total_uncompressed > 0
  THEN Ratio((total_uncompressed - size) * 100, total_uncompressed)
  ELSE Ratio(0, 1)

Info(format, size, names, ratio, total, error) ==
  [format |-> format, size |-> size, files |-> names, compression_ratio |-> ratio,
   total_uncompressed |-> total, error |-> error]

\* the value returned is the info dict; its 'error' key is "ok" when absent
analyze_archive_info(w, archive_path, e) ==
  LET arch == w.files[archive_path]
      format == Suffix(archive_path)
      size == GetSize(arch)
      kind == IF format = ".zip" THEN "zip" ELSE IF format = ".7z" THEN "7z" ELSE "rar"
      reads == format \in {".zip", ".7z"} \/ (format = ".rar" /\ _rarfile_can_extract(e))
      opened == OpenForRead(arch, kind)
      reader == IF kind = "zip" THEN "zipfile-read"
                ELSE IF kind = "7z" THEN "py7zr-read" ELSE "rarfile-read"
      wa == IF format = ".rar" THEN UnrarToolAfter(w, e) ELSE w
  IN IF arch.kind = "absent"
     THEN Result("FileNotFoundError", None, w, EmptyTree, <<>>)
     ELSE IF ~reads
     THEN Result(NoExc, Info(format, size, <<>>, Ratio(0, 1), 0, NoExc), wa, EmptyTree, <<>>)
     ELSE IF opened # NoExc
     THEN Result(NoExc, Info(format, size, <<>>, Ratio(0, 1), 0, opened), wa, EmptyTree,
                 <<Attempt(reader, opened, FALSE)>>)
     ELSE Result(NoExc,
                 Info(format, size, NameList(arch),
                      CompressionRatio(size, TotalFileSize(arch)), TotalFileSize(arch), NoExc),
                 wa, EmptyTree, <<Attempt(reader, NoExc, FALSE)>>)

(***************************************************************************)
(* Splitting and merging.  A file is its length; the byte at an offset is   *)
(* identified by the offset, so a piece of the file is the range of offsets *)
(* [from, to) it holds.                                                     *)
(***************************************************************************)
MiB == 1024 * 1024

RECURSIVE Decimal(_)
Decimal(n) == IF n < 10 THEN <<n>> ELSE Append(Decimal(n \div 10), n % 10)

\* f"{part_num:03d}": at least three digits, zero-padded
Format03d(n) ==
  IF n < 10 THEN <<0, 0, n>> ELSE IF n < 100 THEN <<0>> \o Decimal(n) ELSE Decimal(n)

Min(a, b) == IF a < b THEN a ELSE b

\* str.__lt__ on two part paths of one base name: the extensions compared
\* character by character, a proper prefix being the smaller
StrLess(a, b) ==
  \/ \E k \in 1..Min(Len(a), Len(b)) :
        /\ a[k] < b[k]
        /\ \A j \in 1..(k - 1) : a[j] = b[j]
  \/ /\ Len(a) < Len(b)
     /\ \A j \in 1..Len(a) : a[j] = b[j]

\* sorted(part_files): the paths in ascending string order
sorted(part_files) ==
  LET n == Len(part_files)
      \* each index with the place its path takes: one more than the number
      \* of paths smaller than it
      placed == {<<1 + Cardinality({j \in 1..n : StrLess(part_files[j].ext, part_files[i].ext)}),
                   i>> : i \in 1..n}
  IN [r \in 1..n |-> part_files[(CHOOSE p \in placed : p[1] = r)[2]]]

\* split_archive: chunks of part_size bytes are read until one is empty;
\* chunk number k goes to <base_name>.<k as 03d>
split_archive(size, part_size_mb) ==
  LET part_size == part_size_mb * MiB
      count == (size + part_size - 1) \div part_size
  IN [part_num \in 1..count |->
        [ext |-> Format03d(part_num),
         from |-> (part_num - 1) * part_size,
         to |-> Min(part_num * part_size, size)]]

\* merge_archive_parts: the parts copied to the output in sorted order
merge_archive_parts(part_files) ==
  LET ordered == sorted(part_files)
  IN [k \in 1..Len(part_files) |-> [from |-> ordered[k].from, to |-> ordered[k].to]]

(***************************************************************************)
(* The archive routes of app.py.  A route returns a response; `safe` turns  *)
(* an exception that leaves the route into a 400 or 500 response.           *)
(***************************************************************************)
Response(status) == <<"response", status>>

\* the exceptions of the model that are RuntimeError instances
RuntimeErrors ==
  {"RuntimeError:7zNotFound", "RuntimeError:7zRequired", "RuntimeError:RarRequired",
   "RuntimeError:BadPassword", "RuntimeError:PasswordRequired", "RuntimeError:Unsupported"}

\* save(f, exts): the upload is written below UPLOAD unless its extension is
\* not one of exts
save(w, p, upload, exts) ==
  IF Suffix(p) \notin exts
  THEN Result("RuntimeError:Unsupported", None, w, EmptyTree, <<>>)
  ELSE Result(NoExc, p, WriteTo(w, p, upload), EmptyTree, <<>>)

\* clean(p): os.remove of the file, errors ignored
clean(w, p) == WriteTo(w, p, NoFile)

\* the decorator: RuntimeError becomes 400, any other exception 500
safe(r) ==
  IF r.exc = NoExc THEN r
  ELSE [r EXCEPT !.val = Response(IF r.exc \in RuntimeErrors THEN "400" ELSE "500")]

\* /archive/create-zip: the uploaded files are saved into a mkdtemp directory,
\* zipped, and the directory is removed after the archive was written
create_zip_archive(w, uploaded, password, numeric, compression, order, e) ==
  LET w1 == MkTemp(w)
      temp_dir == w1.made
      c == IF password # NoPw
           THEN create_password_protected_zip(w1, uploaded, OutZip, password, compression, order, e)
           ELSE _zip_directory(w1, uploaded, OutZip, order)
  IN IF ~numeric THEN Result("ValueError:int", None, w, uploaded, <<>>)
     ELSE IF DOMAIN uploaded = {} THEN Result(NoExc, Response("400"), w, uploaded, <<>>)
     ELSE IF c.exc # NoExc THEN c
     ELSE Result(NoExc, Response("200"), RmTemp(c.w, temp_dir), uploaded, c.trace)

\* /archive/extract: the upload is saved, extracted into a mkdtemp directory
\* and re-zipped; upload and directory are removed after the ZIP was written
extract_archive_route(w, src, upload, password, order, e) ==
  LET s == save(w, src, upload, {".zip", ".rar", ".7z", ".tar", ".gz"})
      w1 == MkTemp(s.w)
      extract_dir == w1.made
      x == extract_archive(w1, src, <<"tmp">>, EmptyTree, password, e)
      z == _zip_directory(x.w, x.tree, OutZip, order)
  IN IF s.exc # NoExc THEN s
     ELSE IF x.exc # NoExc THEN [x EXCEPT !.val = None]
     ELSE Result(NoExc, Response("200"), RmTemp(clean(z.w, src), extract_dir), x.tree,
                 x.trace \o z.trace)

\* /archive/convert-format: the upload is saved and converted; it is removed
\* after the conversion returned
convert_archive_format_route(w, src, upload, out_path, password, numeric, compression, order, e) ==
  LET s == save(w, src, upload, {".zip", ".rar", ".7z"})
      converted == {convert_archive_format(s.w, src, out_path, password, compression, order, e)}
  IN IF ~numeric THEN Result("ValueError:int", None, w, EmptyTree, <<>>)
     ELSE IF s.exc # NoExc THEN s
     ELSE CHOOSE r \in {IF c.exc # NoExc THEN [c EXCEPT !.val = None]
                        ELSE Result(NoExc, Response("200"), clean(c.w, src), c.tree, c.trace)
                        : c \in converted} : TRUE

\* /archive/analyze: the upload is saved and analysed; it is removed after
\* the analysis returned
analyze_archive_route(w, src, upload, e) ==
  LET s == save(w, src, upload, {".zip", ".rar", ".7z"})
      a == analyze_archive_info(s.w, src, e)
  IN IF s.exc # NoExc THEN s
     ELSE IF a.exc # NoExc THEN [a EXCEPT !.val = None]
     ELSE Result(NoExc, Response("200"), clean(a.w, src), a.tree, a.trace)

(***************************************************************************)
(* The state: the deployment (env), the caller's files and directories,     *)
(* the temporary directories that exist, and the calls made so far.         *)
(***************************************************************************)
\* what the executable search path may hold
PathChoices == {{}, {"7za"}, {"rar"}, {"7z", "7zz", "rar"}}

\* a deployment: the executables on the search path, whether the rarfile
\* module imports and finds a helper tool, whether pyminizip imports, and
\* the order in which the file system lists a directory
Envs ==
  {e \in [path : PathChoices, rarfile : BOOLEAN, helper : BOOLEAN, pyminizip : BOOLEAN,
          order : WalkOrders, mkdirs : {FALSE}, tool_env : {FALSE}] : e.helper => e.rarfile}

UploadEnc(kind) ==
  IF kind = "zip" THEN "zipcrypto" ELSE IF kind = "7z" THEN "7zaes" ELSE "rar"

\* the archives a caller may hand in, by container kind
Uploads(kind) ==
  {Archive(kind, EntriesOf(TreeAB, <<NameA, NameBA>>), "none", NoPw),
   Archive(kind, EntriesOf(TreeAB, <<NameA, NameBA>>), UploadEnc(kind), "p"),
   Damaged(kind)}
  \cup (IF kind = "zip"
        THEN {Archive(kind, EntriesOf(TreeAB, <<NameA, NameBA>>), "aes", "p")}
        ELSE {})

KindOf(path) ==
  IF Suffix(path) = ".zip" THEN "zip" ELSE IF Suffix(path) = ".7z" THEN "7z" ELSE "rar"

NoFiles == [p \in Paths |-> NoFile]

\* the caller has stored one archive, under a name that tells its kind
UploadedDisks ==
  UNION {{[NoFiles EXCEPT ![p] = a] : a \in Uploads(KindOf(p))} : p \in InPaths}

SrcDir == <<"src">>
DestDir == <<"dest">>
DirNames == {SrcDir, DestDir}

World ==
  [files |-> files, tmp |-> tmpdirs, made |-> made, parents |-> parents,
   unrar_tool |-> UNRAR_TOOL]

\* the record of one call: its arguments, the state it ran in, its outcome
Entry(op, inp, out, pw, r) ==
  [op |-> op, inp |-> inp, out |-> out, pw |-> pw, env |-> env,
   src |-> IF inp \in Paths THEN files[inp] ELSE NoFile,
   from |-> IF inp \in DirNames THEN dirs[inp] ELSE EmptyTree,
   before |-> IF out \in DirNames THEN dirs[out] ELSE EmptyTree,
   exc |-> r.exc, val |-> r.val, tree |-> r.tree, trace |-> r.trace,
   tmpAfter |-> r.w.tmp, madeBefore |-> made, madeAfter |-> r.w.made,
   missing |-> Parent(out) \notin parents]

\* no member of a file on disk is nested deeper than the bound
Shallow(w) ==
  \A p \in Paths : w.files[p].kind # "absent" =>
     \A i \in 1..Len(w.files[p].entries) : Depth(w.files[p].entries[i].name) <= MaxDepth

\* the call leaves the world r.w behind and is recorded
Commit(r, e) ==
  /\ Shallow(r.w)
  /\ files' = r.w.files
  /\ tmpdirs' = r.w.tmp
  /\ made' = r.w.made
  /\ parents' = r.w.parents
  /\ UNRAR_TOOL' = r.w.unrar_tool
  /\ log' = Append(log, e)

\* a call made on its own, from start to return
Returns(r, e) ==
  /\ Commit(r, e)
  /\ UNCHANGED <<inst, running>>

Threads == 1..MaxThreads

\* a thread that is not inside a call
Idle == [op |-> "idle"]

\* no ArchiveConverters object exists
NoInstance == [state |-> "none", owns |-> FALSE, exists |-> FALSE, extracted |-> EmptyTree]

InitRest ==
  /\ dirs[DestDir] = EmptyTree
  /\ tmpdirs = {}
  /\ made = 0
  /\ log = <<>>
  /\ inst = NoInstance
  /\ running = [t \in Threads |-> Idle]
  /\ parents = {"."}
  /\ UNRAR_TOOL = DefaultUnrarTool

\* the deployment changes between two calls: the helper tool of the rarfile
\* module is installed or removed
EnvChange ==
  /\ Len(log) < MaxCalls
  /\ env.rarfile
  /\ env' = [env EXCEPT !.helper = ~@]
  /\ UNCHANGED <<files, dirs, tmpdirs, made, log, inst, running, parents, UNRAR_TOOL>>

CallZipDirectory ==
  \E d \in DirNames, out \in {OutZip} :
    /\ Len(log) < MaxCalls
    /\ LET r == _zip_directory(World, dirs[d], out, env.order)
       IN Returns(r, Entry("_zip_directory", d, out, NoPw, r))
    /\ UNCHANGED <<env, dirs>>

CallCreateArchive ==
  \E d \in DirNames, out \in {OutZip, OutTar, OutBin} :
    /\ Len(log) < MaxCalls
    /\ LET r == create_archive(World, dirs[d], out, env.order)
       IN Returns(r, Entry("create_archive", d, out, NoPw, r))
    /\ UNCHANGED <<env, dirs>>

\* create_archive called with any output path
CallCreateArchiveTo ==
  \E d \in DirNames, out \in OutPaths :
    /\ Len(log) < MaxCalls
    /\ LET r == create_archive(World, dirs[d], out, env.order)
       IN Returns(r, Entry("create_archive", d, out, NoPw, r))
    /\ UNCHANGED <<env, dirs>>

CallCreate7z ==
  \E d \in DirNames, out \in {Out7z}, pw \in Passwords, lvl \in Levels :
    /\ Len(log) < MaxCalls
    /\ LET r == create_7z_archive(World, dirs[d], Last(d), out, pw, lvl, env.order)
       IN Returns(r, Entry("create_7z_archive", d, out, pw, r))
    /\ UNCHANGED <<env, dirs>>

CallCreatePasswordProtectedZip ==
  \E d \in DirNames, out \in {OutZip}, pw \in Passwords \ {NoPw}, lvl \in Levels :
    /\ Len(log) < MaxCalls
    /\ LET r == create_password_protected_zip(World, dirs[d], out, pw, lvl, env.order, env)
       IN Returns(r, Entry("create_password_protected_zip", d, out, pw, r))
    /\ UNCHANGED <<env, dirs>>

CallCreatePasswordZipAlternative ==
  \E d \in DirNames, out \in {OutZip, InZip}, pw \in Passwords \ {NoPw} :
    /\ Len(log) < MaxCalls
    /\ IF files[out].kind = "absent" THEN TRUE ELSE files[out].corrupt
    /\ DOMAIN dirs[d] # {}
    /\ LET r == create_password_zip_alternative(World, dirs[d], out, pw, env.order, env)
       IN Returns(r, Entry("create_password_zip_alternative", d, out, pw, r))
    /\ UNCHANGED <<env, dirs>>

CallExtractArchive ==
  \E p \in Paths, pw \in Passwords :
    /\ Len(log) < MaxCalls
    /\ files[p].kind # "absent"
    /\ LET r == extract_archive(World, p, DestDir, dirs[DestDir], pw, env)
       IN /\ Returns(r, Entry("extract_archive", p, DestDir, pw, r))
          /\ dirs' = [dirs EXCEPT ![DestDir] = r.tree]
    /\ UNCHANGED env

CallExtract7z ==
  \E p \in Paths, pw \in Passwords :
    /\ Len(log) < MaxCalls
    /\ files[p].kind # "absent"
    /\ LET r == extract_7z_archive(World, p, DestDir, dirs[DestDir], pw)
       IN /\ Returns(r, Entry("extract_7z_archive", p, DestDir, pw, r))
          /\ dirs' = [dirs EXCEPT ![DestDir] = r.tree]
    /\ UNCHANGED env

CallConvert ==
  \E p \in Paths, out \in {OutZip, Out7z, OutRar, OutBin}, pw \in Passwords, lvl \in Levels :
    /\ Len(log) < MaxCalls
    /\ files[p].kind # "absent"
    /\ p # out
    /\ LET r == convert_archive_format(World, p, out, pw, lvl, env.order, env)
       IN Returns(r, Entry("convert_archive_format", p, out, pw, r))
    /\ UNCHANGED <<env, dirs>>

CallRarToZip ==
  \E p \in {InRar}, out \in {OutZip}, pw \in Passwords :
    /\ Len(log) < MaxCalls
    /\ LET r == rar_to_zip(World, p, out, pw, env.order, env)
       IN Returns(r, Entry("rar_to_zip", p, out, pw, r))
    /\ UNCHANGED <<env, dirs>>

CallZipToRar ==
  \E p \in {InZip, OutZip}, out \in {OutRar}, pw \in Passwords :
    /\ Len(log) < MaxCalls
    /\ files[out].kind = "absent"
    /\ LET r == zip_to_rar(World, files[p], out, pw, env.order, env)
       IN Returns(r, Entry("zip_to_rar", p, out, pw, r))
    /\ UNCHANGED <<env, dirs>>

\* the lengths of the files split: around the multiples of one MiB, and one
\* large file
FileSizes ==
  {n \in {k * MiB + d : k \in 0..MaxFileMb, d \in {-1, 0, 1}} : n >= 0}
    \cup {LargeFileMb * MiB}

\* split_archive(archive_path, part_size_mb) on a file of any of the lengths
CallSplit ==
  \E size \in FileSizes, part_size_mb \in 1..MaxPartSizeMb :
    /\ log = <<>>
    /\ log' = <<[op |-> "split_archive", size |-> size, part_size_mb |-> part_size_mb,
                 val |-> split_archive(size, part_size_mb)]>>
    /\ UNCHANGED <<env, files, dirs, tmpdirs, made, inst, running, parents, UNRAR_TOOL>>

\* merge_archive_parts(part_files, output_path) on the list split_archive
\* returned
CallMerge ==
  /\ Len(log) = 1
  /\ log[1].op = "split_archive"
  /\ log' = Append(log, [op |-> "merge_archive_parts", size |-> log[1].size,
                         part_size_mb |-> log[1].part_size_mb,
                         val |-> merge_archive_parts(log[1].val)])
  /\ UNCHANGED <<env, files, dirs, tmpdirs, made, inst, running, parents, UNRAR_TOOL>>

\* the tool RARFILE_UNRAR_TOOL names is installed or removed between two calls
ToolEnvChange ==
  /\ Len(log) < MaxCalls
  /\ env' = [env EXCEPT !.tool_env = ~@]
  /\ UNCHANGED <<files, dirs, tmpdirs, made, log, inst, running, parents, UNRAR_TOOL>>

\* a request to /archive/create-zip with the files of a directory
RouteCreateZip ==
  \E uploaded \in {EmptyTree, TreeA, TreeAB}, pw \in {NoPw, "p"}, numeric \in BOOLEAN,
     lvl \in Levels :
    /\ Len(log) < MaxRequests
    /\ LET r == safe(create_zip_archive(World, uploaded, pw, numeric, lvl, env.order, env))
       IN Returns(r, Entry("create_zip_archive", None, OutZip, pw, r))
    /\ UNCHANGED <<env, dirs>>

\* a request to /archive/extract; the name save() gives the upload is new
RouteExtract ==
  \E src \in UploadPaths, pw \in {NoPw, "p"} :
    \E upload \in Uploads(KindOf(src)) :
      /\ Len(log) < MaxRequests
      /\ files[src].kind = "absent"
      /\ LET r == safe(extract_archive_route(World, src, upload, pw, env.order, env))
         IN Returns(r, Entry("extract_archive_route", src, OutZip, pw, r))
      /\ UNCHANGED <<env, dirs>>

\* a request to /archive/convert-format
RouteConvertFormat ==
  \E src \in UploadPaths, out \in {OutZip, Out7z, OutRar, OutBin}, pw \in {NoPw, "p"},
     numeric \in BOOLEAN, lvl \in Levels :
    \E upload \in Uploads(KindOf(src)) :
      /\ Len(log) < MaxRequests
      /\ files[src].kind = "absent"
      /\ \E r \in {safe(convert_archive_format_route(World, src, upload, out, pw, numeric, lvl,
                                                       env.order, env))} :
           Returns(r, Entry("convert_archive_format_route", src, out, pw, r))
      /\ UNCHANGED <<env, dirs>>

\* a request to /archive/analyze
RouteAnalyze ==
  \E src \in UploadPaths :
    \E upload \in Uploads(KindOf(src)) :
      /\ Len(log) < MaxRequests
      /\ files[src].kind = "absent"
      /\ LET r == safe(analyze_archive_route(World, src, upload, env))
         IN Returns(r, Entry("analyze_archive_route", src, None, NoPw, r))
      /\ UNCHANGED <<env, dirs>>

\* the writers called with an output path below the directory "new", which
\* may be missing; the source directory, the archives and the tools are sound
ZipDirectoryNew ==
  /\ Len(log) < MaxCalls
  /\ LET r == _zip_directory(World, dirs[SrcDir], NewZip, env.order)
     IN Returns(r, Entry("_zip_directory", SrcDir, NewZip, NoPw, r))
  /\ UNCHANGED <<env, dirs>>

CreateArchiveNew ==
  \E out \in {NewZip, NewTar} :
    /\ Len(log) < MaxCalls
    /\ LET r == create_archive(World, dirs[SrcDir], out, env.order)
       IN Returns(r, Entry("create_archive", SrcDir, out, NoPw, r))
    /\ UNCHANGED <<env, dirs>>

Create7zNew ==
  \E pw \in {NoPw, "p"}, lvl \in Levels :
    /\ Len(log) < MaxCalls
    /\ LET r == create_7z_archive(World, dirs[SrcDir], Last(SrcDir), New7z, pw, lvl, env.order)
       IN Returns(r, Entry("create_7z_archive", SrcDir, New7z, pw, r))
    /\ UNCHANGED <<env, dirs>>

CreatePasswordProtectedZipNew ==
  \E lvl \in Levels :
    /\ Len(log) < MaxCalls
    /\ LET r == create_password_protected_zip(World, dirs[SrcDir], NewZip, "p", lvl, env.order, env)
       IN Returns(r, Entry("create_password_protected_zip", SrcDir, NewZip, "p", r))
    /\ UNCHANGED <<env, dirs>>

CreatePasswordZipAlternativeNew ==
  /\ Len(log) < MaxCalls
  /\ files[NewZip].kind = "absent"
  /\ LET r == create_password_zip_alternative(World, dirs[SrcDir], NewZip, "p", env.order, env)
     IN Returns(r, Entry("create_password_zip_alternative", SrcDir, NewZip, "p", r))
  /\ UNCHANGED <<env, dirs>>

RarToZipNew ==
  /\ Len(log) < MaxCalls
  /\ LET r == rar_to_zip(World, InRar, NewZip, NoPw, env.order, env)
     IN Returns(r, Entry("rar_to_zip", InRar, NewZip, NoPw, r))
  /\ UNCHANGED <<env, dirs>>

ZipToRarNew ==
  \E pw \in {NoPw, "p"} :
    /\ Len(log) < MaxCalls
    /\ files[NewRar].kind = "absent"
    /\ LET r == zip_to_rar(World, files[InZip], NewRar, pw, env.order, env)
       IN Returns(r, Entry("zip_to_rar", InZip, NewRar, pw, r))
    /\ UNCHANGED <<env, dirs>>

ConvertNew ==
  \E p \in {InZip, InRar}, out \in {NewZip, New7z}, lvl \in Levels :
    /\ Len(log) < MaxCalls
    /\ LET r == convert_archive_format(World, p, out, NoPw, lvl, env.order, env)
       IN Returns(r, Entry("convert_archive_format", p, out, NoPw, r))
    /\ UNCHANGED <<env, dirs>>

\* the directory a call in flight extracts into: the temporary directory of
\* its `with` block, or os.path.join(self.output_dir, "extracted")
TempDir(n) == [root |-> "tmp", id |-> n]

OutputExtracted == [root |-> "output_dir", id |-> 0]

InFlight == {t \in Threads : running[t] # Idle}

Started(op, inp, out, pw, dir, self) ==
  [op |-> op, inp |-> inp, out |-> out, pw |-> pw, dir |-> dir, self |-> self]

\* ArchiveConverters(output_dir): the directory is the caller's, or one the
\* object makes with tempfile.mkdtemp and owns
NewInstance ==
  \E owns \in BOOLEAN :
    /\ inst = NoInstance
    /\ inst' = [state |-> "live", owns |-> owns, exists |-> TRUE, extracted |-> EmptyTree]
    /\ parents' = parents \cup {"output_dir"}
    /\ UNCHANGED <<env, files, dirs, tmpdirs, made, log, running, UNRAR_TOOL>>

\* a destructor that removes output_dir whoever made it
DelInstanceAlways ==
  /\ inst.state = "live"
  /\ \A t \in InFlight : ~running[t].self
  /\ files' = [files EXCEPT ![ConvertedZip] = NoFile]
  /\ inst' = [state |-> "gone", owns |-> inst.owns, exists |-> FALSE, extracted |-> EmptyTree]
  /\ parents' = parents \ {"output_dir"}
  /\ UNCHANGED <<env, dirs, tmpdirs, made, log, running, UNRAR_TOOL>>

\* ArchiveConverters.__del__, once no call holds the object: rmtree of
\* output_dir when the object made it, nothing otherwise
DelInstance ==
  /\ inst.state = "live"
  /\ \A t \in InFlight : ~running[t].self
  /\ IF inst.owns
     THEN /\ files' = [files EXCEPT ![ConvertedZip] = NoFile]
          /\ inst' = [state |-> "gone", owns |-> TRUE, exists |-> FALSE, extracted |-> EmptyTree]
          /\ parents' = parents \ {"output_dir"}
     ELSE /\ files' = files
          /\ inst' = [inst EXCEPT !.state = "gone"]
          /\ parents' = parents
  /\ UNCHANGED <<env, dirs, tmpdirs, made, log, running, UNRAR_TOOL>>

\* a thread enters convert_archive_format and its staging directory is made
BeginConvert ==
  \E t \in Threads, p \in InPaths, out \in {OutZip, Out7z}, pw \in {NoPw, "p"} :
    /\ running[t] = Idle
    /\ Len(log) + Cardinality(InFlight) < MaxCalls
    /\ files[p].kind # "absent"
    /\ tmpdirs' = MkTemp(World).tmp
    /\ made' = MkTemp(World).made
    /\ running' = [running EXCEPT ![t] =
         Started("convert_archive_format", p, out, pw, TempDir(MkTemp(World).made), FALSE)]
    /\ UNCHANGED <<env, files, dirs, log, inst, parents, UNRAR_TOOL>>

\* the thread extracts, compresses, leaves the block and returns
FinishConvert ==
  \E t \in InFlight, lvl \in Levels :
    /\ running[t].op = "convert_archive_format"
    /\ LET c == running[t]
           r == convert_staged(World, c.dir.id, c.inp, c.out, c.pw, lvl, env.order, env)
       IN Commit(r, Entry(c.op, c.inp, c.out, c.pw, r))
    /\ running' = [running EXCEPT ![t] = Idle]
    /\ UNCHANGED <<env, dirs, inst>>

\* ArchiveConverters.rar_to_zip: rar_to_zip(file_path, output_dir/converted.zip)
BeginInstanceRarToZip ==
  \E t \in Threads, pw \in {NoPw, "p"} :
    /\ running[t] = Idle
    /\ Len(log) + Cardinality(InFlight) < MaxCalls
    /\ inst.state = "live"
    /\ files[InRar].kind # "absent"
    /\ tmpdirs' = MkTemp(World).tmp
    /\ made' = MkTemp(World).made
    /\ running' = [running EXCEPT ![t] =
         Started("ArchiveConverters.rar_to_zip", InRar, ConvertedZip, pw,
                 TempDir(MkTemp(World).made), TRUE)]
    /\ UNCHANGED <<env, files, dirs, log, inst, parents, UNRAR_TOOL>>

FinishInstanceRarToZip ==
  \E t \in InFlight :
    /\ running[t].op = "ArchiveConverters.rar_to_zip"
    /\ LET c == running[t]
           r == rar_to_zip_staged(World, c.dir.id, c.inp, c.out, c.pw, env.order, env)
       IN Commit(r, Entry(c.op, c.inp, c.out, c.pw, r))
    /\ running' = [running EXCEPT ![t] = Idle]
    /\ UNCHANGED <<env, dirs, inst>>

\* ArchiveConverters.extract_archive: extract_archive(file_path,
\* output_dir/extracted); _ensure_dir makes the directory if it is not there
BeginInstanceExtract ==
  \E t \in Threads, p \in InPaths, pw \in {NoPw, "p"} :
    /\ running[t] = Idle
    /\ Len(log) + Cardinality(InFlight) < MaxCalls
    /\ inst.state = "live"
    /\ files[p].kind # "absent"
    /\ running' = [running EXCEPT ![t] =
         Started("ArchiveConverters.extract_archive", p, None, pw, OutputExtracted, TRUE)]
    /\ UNCHANGED <<env, files, dirs, tmpdirs, made, log, inst, parents, UNRAR_TOOL>>

FinishInstanceExtract ==
  \E t \in InFlight :
    /\ running[t].op = "ArchiveConverters.extract_archive"
    /\ LET c == running[t]
           r == extract_archive(World, c.inp, <<"output_dir", "extracted">>, inst.extracted,
                                c.pw, env)
       IN /\ Commit(r, Entry(c.op, c.inp, c.out, c.pw, r))
          /\ inst' = [inst EXCEPT !.extracted = r.tree]
    /\ running' = [running EXCEPT ![t] = Idle]
    /\ UNCHANGED <<env, dirs>>

\* the candidate lists the module resolves, and others a caller may pass
CandidateLists ==
  {<<>>, <<"7z", "7za", "7zz">>, <<"rar", "winrar", "WinRAR">>, <<"7zz", "7z">>, <<"unrar", "7za">>}

\* what the executable search path may hold while a process runs
ProbePaths == SUBSET {"7z", "7za", "7zz", "rar"}

CallDetectTool ==
  \E candidates \in CandidateLists :
    /\ Len(log) < MaxCalls
    /\ LET found == _detect_tool(candidates, env.path)
           r == Result(NoExc, IF found = NoTool THEN None ELSE <<found>>, World, EmptyTree, <<>>)
       IN Returns(r, Entry("_detect_tool", candidates, None, NoPw, r))
    /\ UNCHANGED <<env, dirs>>

\* an executable is installed on, or removed from, the search path
PathChange ==
  \E path \in ProbePaths :
    /\ Len(log) < MaxCalls
    /\ path # env.path
    /\ env' = [env EXCEPT !.path = path]
    /\ UNCHANGED <<files, dirs, tmpdirs, made, log, inst, running, parents, UNRAR_TOOL>>

CallAnalyze ==
  \E p \in InPaths \cup {OutZip, OutTar} :
    /\ Len(log) < MaxAnalyzeCalls
    /\ LET r == analyze_archive_info(World, p, env)
       IN Returns(r, Entry("analyze_archive_info", p, p, NoPw, r))
    /\ UNCHANGED <<env, dirs>>

\* the entry points that take a compression level, called with any level
CallCreate7zAtLevel ==
  \E d \in DirNames, out \in {Out7z}, pw \in Passwords, lvl \in LevelInputs :
    /\ Len(log) < MaxConvertCalls
    /\ LET r == create_7z_archive(World, dirs[d], Last(d), out, pw, lvl, env.order)
       IN Returns(r, Entry("create_7z_archive", d, out, pw, r))
    /\ UNCHANGED <<env, dirs>>

CallCreatePasswordProtectedZipAtLevel ==
  \E d \in DirNames, out \in {OutZip}, pw \in Passwords \ {NoPw}, lvl \in LevelInputs :
    /\ Len(log) < MaxConvertCalls
    /\ LET r == create_password_protected_zip(World, dirs[d], out, pw, lvl, env.order, env)
       IN Returns(r, Entry("create_password_protected_zip", d, out, pw, r))
    /\ UNCHANGED <<env, dirs>>

CallConvertAtLevel ==
  \E p \in InPaths, out \in {OutZip, Out7z}, pw \in Passwords, lvl \in LevelInputs :
    /\ Len(log) < MaxConvertCalls
    /\ files[p].kind # "absent"
    /\ LET r == convert_archive_format(World, p, out, pw, lvl, env.order, env)
       IN Returns(r, Entry("convert_archive_format", p, out, pw, r))
    /\ UNCHANGED <<env, dirs>>

(***************************************************************************)
(* Extraction: one stored archive of any kind, any deployment (the RAR      *)
(* command line plays no part in extraction), and the deployment may change *)
(* between the calls.                                                       *)
(***************************************************************************)
InitExtract ==
  /\ env \in {e \in Envs : e.order = <<NameA, NameBA>> /\ e.path \in {{}, {"7za"}}}
  /\ files \in UploadedDisks
  /\ dirs = [d \in DirNames |-> EmptyTree]
  /\ InitRest

NextExtract ==
  \/ EnvChange
  \/ CallExtractArchive
  \/ CallExtract7z
  \/ CallRarToZip

SpecExtract == InitExtract /\ [][NextExtract]_vars

(***************************************************************************)
(* Conversion and creation: one stored archive of any kind, any deployment, *)
(* a single call.                                                           *)
(***************************************************************************)
InitConvert ==
  /\ env \in {e \in Envs : e.order = <<NameA, NameBA>>}
  /\ files \in UploadedDisks
  /\ dirs = [d \in DirNames |-> IF d = SrcDir THEN TreeAB ELSE EmptyTree]
  /\ InitRest

Convert == Len(log) < MaxConvertCalls /\ CallConvert

RarToZip == Len(log) < MaxConvertCalls /\ CallRarToZip

ZipToRar == Len(log) < MaxConvertCalls /\ CallZipToRar

Create7z == Len(log) < MaxConvertCalls /\ CallCreate7z

CreatePasswordProtectedZip == Len(log) < MaxConvertCalls /\ CallCreatePasswordProtectedZip

CreatePasswordZipAlternative == Len(log) < MaxConvertCalls /\ CallCreatePasswordZipAlternative

NextConvert ==
  \/ Convert
  \/ RarToZip
  \/ ZipToRar
  \/ Create7z
  \/ CreatePasswordProtectedZip
  \/ CreatePasswordZipAlternative

SpecConvert == InitConvert /\ [][NextConvert]_vars

(***************************************************************************)
(* Round trips: any source directory, any listing order, every tool         *)
(* installed; the disk is empty or holds one plain ZIP.                     *)
(***************************************************************************)
InitRoundTrip ==
  /\ env \in {e \in Envs : e.path = {"7z", "7zz", "rar"} /\ e.helper /\ e.pyminizip}
  /\ files \in {NoFiles, [NoFiles EXCEPT ![InZip] = ZipfileWrite(TreeAB, <<NameA, NameBA>>)]}
  /\ dirs \in [DirNames -> Trees]
  /\ InitRest

NextRoundTrip ==
  \/ CallZipDirectory
  \/ CallCreateArchive
  \/ CallExtractArchive
  \/ CallConvert

SpecRoundTrip == InitRoundTrip /\ [][NextRoundTrip]_vars

(***************************************************************************)
(* Creation: any source directory, any listing order, an empty disk, and    *)
(* create_archive called with every kind of output path.                    *)
(***************************************************************************)
InitCreate ==
  /\ env \in {e \in Envs : e.path = {"7z", "7zz", "rar"} /\ e.helper /\ e.pyminizip}
  /\ files = NoFiles
  /\ dirs \in [DirNames -> Trees]
  /\ InitRest

NextCreate ==
  \/ CallCreateArchiveTo
  \/ CallExtractArchive

SpecCreate == InitCreate /\ [][NextCreate]_vars

(***************************************************************************)
(* Output directories: a sound ZIP and RAR archive on disk, a non-empty     *)
(* source directory, every tool installed; the directory of the output path *)
(* may be missing, and the external archivers may or may not make it.       *)
(***************************************************************************)
InitParents ==
  /\ env \in {[e EXCEPT !.mkdirs = b] :
               e \in {x \in Envs : x.path = {"7z", "7zz", "rar"} /\ x.helper /\ x.pyminizip},
               b \in BOOLEAN}
  /\ files = [NoFiles EXCEPT ![InZip] = ZipfileWrite(TreeAB, <<NameA, NameBA>>),
                             ![InRar] = RarAdd(TreeAB, <<NameA, NameBA>>, NoPw)]
  /\ dirs \in {[d \in DirNames |-> IF d = SrcDir THEN t ELSE EmptyTree] : t \in {TreeA, TreeAB}}
  /\ tmpdirs = {}
  /\ made = 0
  /\ log = <<>>
  /\ inst = NoInstance
  /\ running = [t \in Threads |-> Idle]
  /\ parents \in {{"."}, {".", "new"}}
  /\ UNRAR_TOOL = DefaultUnrarTool

NextParents ==
  \/ ZipDirectoryNew
  \/ CreateArchiveNew
  \/ Create7zNew
  \/ CreatePasswordProtectedZipNew
  \/ CreatePasswordZipAlternativeNew
  \/ RarToZipNew
  \/ ZipToRarNew
  \/ ConvertNew

SpecParents == InitParents /\ [][NextParents]_vars

(***************************************************************************)
(* The web layer: requests to the four archive routes, one after another,   *)
(* in any deployment, with any upload.                                      *)
(***************************************************************************)
InitRoutes ==
  /\ env \in {e \in Envs : e.order = <<NameA, NameBA>>}
  /\ files = NoFiles
  /\ dirs = [d \in DirNames |-> EmptyTree]
  /\ InitRest

NextRoutes ==
  \/ RouteCreateZip
  \/ RouteExtract
  \/ RouteConvertFormat
  \/ RouteAnalyze

SpecRoutes == InitRoutes /\ [][NextRoutes]_vars

(***************************************************************************)
(* Process-wide state: one process serves RAR requests one after another;   *)
(* the rarfile module is there, and the tool the environment variable names *)
(* and the unrar on the search path may each be present or not.             *)
(***************************************************************************)
InitShared ==
  /\ env \in {[e EXCEPT !.tool_env = b] :
               e \in {x \in Envs : x.rarfile /\ x.pyminizip /\ x.order = <<NameA, NameBA>>},
               b \in BOOLEAN}
  /\ files \in {[NoFiles EXCEPT ![InRar] = a] : a \in Uploads("rar")}
  /\ dirs = [d \in DirNames |-> EmptyTree]
  /\ InitRest

NextShared ==
  \/ ToolEnvChange
  \/ EnvChange
  \/ CallExtractArchive
  \/ CallRarToZip

SpecShared == InitShared /\ [][NextShared]_vars

(***************************************************************************)
(* Splitting and merging: one file is split and its parts are merged.       *)
(***************************************************************************)
InitSplit ==
  /\ env \in {e \in Envs : e.path = {} /\ ~e.rarfile /\ ~e.pyminizip /\ e.order = <<NameA, NameBA>>}
  /\ files = NoFiles
  /\ dirs = [d \in DirNames |-> EmptyTree]
  /\ InitRest

NextSplit ==
  \/ CallSplit
  \/ CallMerge

SpecSplit == InitSplit /\ [][NextSplit]_vars

(***************************************************************************)
(* One ArchiveConverters object from construction to destruction: a stored  *)
(* ZIP and a stored RAR archive, every tool installed, and the methods of   *)
(* the object called from concurrent threads.                               *)
(***************************************************************************)
InitOwned ==
  /\ env \in {e \in Envs : e.path = {"7z", "7zz", "rar"} /\ e.helper /\ e.pyminizip
                              /\ e.order = <<NameA, NameBA>>}
  /\ files \in {[NoFiles EXCEPT
                   ![InZip] = ZipfileWrite(TreeA, <<NameA, NameBA>>),
                   ![InRar] = RarAdd(TreeAB, <<NameA, NameBA>>, pw)]
                 : pw \in {NoPw, "p"}}
  /\ dirs = [d \in DirNames |-> EmptyTree]
  /\ InitRest

NextOwned ==
  \/ NewInstance
  \/ DelInstance
  \/ BeginInstanceRarToZip
  \/ FinishInstanceRarToZip
  \/ BeginInstanceExtract
  \/ FinishInstanceExtract

SpecOwned == InitOwned /\ [][NextOwned]_vars

(***************************************************************************)
(* Compression levels: every tool installed, one stored archive, a single   *)
(* call with any level.                                                     *)
(***************************************************************************)
InitLevels ==
  /\ env \in {e \in Envs : e.path = {"7z", "7zz", "rar"} /\ e.helper /\ e.pyminizip}
  /\ files \in {[NoFiles EXCEPT ![p] = Archive(KindOf(p), EntriesOf(TreeAB, <<NameA, NameBA>>),
                                                IF pw = NoPw THEN "none" ELSE UploadEnc(KindOf(p)), pw)]
                 : p \in {InZip, In7z}, pw \in {NoPw, "p"}}
  /\ dirs \in [DirNames -> {EmptyTree, TreeAB}]
  /\ InitRest

NextLevels ==
  \/ CallCreate7zAtLevel
  \/ CallCreatePasswordProtectedZipAtLevel
  \/ CallConvertAtLevel

SpecLevels == InitLevels /\ [][NextLevels]_vars

(***************************************************************************)
(* Analysis: one stored archive of any kind, analysed between extractions   *)
(* and changes of the deployment.                                           *)
(***************************************************************************)
AnalysisDisks ==
  UploadedDisks \cup {[NoFiles EXCEPT ![p] = Archive(KindOf(p), EntriesOf(TreeBlank, <<NameA>>),
                                                       "none", NoPw)] : p \in InPaths}
                \cup {[NoFiles EXCEPT ![OutTar] = TarfileAdd(TreeAB, <<NameA, NameBA>>, "w")]}
                \cup {[NoFiles EXCEPT
                         ![InZip] = Archive("zip", EntriesOf(TreeBlank, <<NameA>>), "none", NoPw),
                         ![In7z] = Damaged("7z"),
                         ![InRar] = Archive("rar", EntriesOf(TreeAB, <<NameA, NameBA>>), "none", NoPw)]}

InitAnalyze ==
  /\ env \in {e \in Envs : e.order = <<NameA, NameBA>> /\ e.path = {"7za"} /\ e.pyminizip}
  /\ files \in AnalysisDisks
  /\ dirs = [d \in DirNames |-> EmptyTree]
  /\ InitRest

NextAnalyze ==
  \/ EnvChange
  \/ CallAnalyze
  \/ CallExtractArchive

SpecAnalyze == InitAnalyze /\ [][NextAnalyze]_vars

(***************************************************************************)
(* Tool resolution: any search path, which may change between the calls.    *)
(***************************************************************************)
InitProbe ==
  /\ env \in {[path |-> path, rarfile |-> FALSE, helper |-> FALSE, pyminizip |-> FALSE,
                order |-> <<NameA, NameBA>>] : path \in ProbePaths}
  /\ files = NoFiles
  /\ dirs = [d \in DirNames |-> EmptyTree]
  /\ InitRest

NextProbe ==
  \/ PathChange
  \/ CallDetectTool

SpecProbe == InitProbe /\ [][NextProbe]_vars

(***************************************************************************)
(* Concurrent callers and one ArchiveConverters object: a stored ZIP and a  *)
(* stored RAR archive, every tool installed.                                *)
(***************************************************************************)
InitInstance ==
  /\ env \in {e \in Envs : e.path = {"7z", "7zz", "rar"} /\ e.helper /\ e.pyminizip
                              /\ e.order = <<NameA, NameBA>>}
  /\ files \in {[NoFiles EXCEPT
                   ![InZip] = ZipfileWrite(tree, <<NameA, NameBA>>),
                   ![InRar] = RarAdd(TreeAB, <<NameA, NameBA>>, pw)]
                 : tree \in {TreeA, TreeAB}, pw \in {NoPw, "p"}}
  /\ dirs = [d \in DirNames |-> EmptyTree]
  /\ InitRest

NextInstance ==
  \/ NewInstance
  \/ DelInstance
  \/ BeginConvert
  \/ FinishConvert
  \/ BeginInstanceRarToZip
  \/ FinishInstanceRarToZip
  \/ BeginInstanceExtract
  \/ FinishInstanceExtract

SpecInstance == InitInstance /\ [][NextInstance]_vars

(***************************************************************************)
(* Properties                                                              *)
(***************************************************************************)
Calls == 1..Len(log)

ExtractStrategies == {"zipfile", "tarfile", "py7zr", "rarfile", "7z"}

\* the extraction attempts of a call, in order
Extractions(c) == SelectSeq(c.trace, LAMBDA a : a.strategy \in ExtractStrategies)

\* the temporary directories a call created
CreatedBy(c) == (c.madeBefore + 1)..c.madeAfter

\* C1: when convert_archive_format, rar_to_zip or zip_to_rar returns or
\* raises, no temporary staging directory the call created exists any more.
C1_StagingRemoved ==
  \A i \in Calls :
    log[i].op \in {"convert_archive_format", "rar_to_zip", "zip_to_rar"}
      => log[i].tmpAfter \cap CreatedBy(log[i]) = {}

\* a conversion created its staging directory and then raised
C1_Witness ==
  \E i \in Calls :
    /\ log[i].op = "convert_archive_format"
    /\ CreatedBy(log[i]) # {}
    /\ log[i].exc # NoExc
    /\ tmpdirs = {}

\* the file set an archive holds: member names and their bytes
Contents(arch) == ExtractEntries(arch.entries, EmptyTree)

Converted(c, from, to) ==
  /\ c.op = "convert_archive_format"
  /\ c.exc = NoExc
  /\ Suffix(c.inp) = from
  /\ Suffix(c.out) = to

\* C2: a ZIP converted to 7z and that 7z converted back to ZIP (here without
\* a password) holds the file set of the original ZIP, names and bytes.
C2_SevenZipRoundTrip ==
  \A i \in Calls :
    (/\ i + 1 = Len(log)
     /\ Converted(log[i], ".zip", ".7z")
     /\ Converted(log[i + 1], ".7z", ".zip")
     /\ log[i + 1].inp = log[i].out
     /\ log[i].pw = NoPw
     /\ log[i + 1].pw = NoPw)
      => Contents(files[log[i + 1].out]) = Contents(log[i].src)

\* C3: a directory zipped without a password by _zip_directory, or by
\* create_archive under a .zip name, and then extracted by extract_archive
\* into an empty directory gives back the same file set, names and bytes,
\* whatever the order the members were written in.
C3_ZipRoundTrip ==
  \A i \in Calls :
    (/\ i + 1 \in Calls
     /\ log[i].op \in {"_zip_directory", "create_archive"}
     /\ log[i].exc = NoExc
     /\ Suffix(log[i].out) = ".zip"
     /\ log[i + 1].op = "extract_archive"
     /\ log[i + 1].inp = log[i].out
     /\ log[i + 1].before = EmptyTree)
      => /\ log[i + 1].exc = NoExc
         /\ log[i + 1].tree = log[i].from

\* two files, one in a subdirectory, written in the reverse listing order,
\* were zipped and extracted
C3_Witness ==
  /\ Len(log) = 2
  /\ log[1].op = "_zip_directory"
  /\ log[1].from = TreeAB
  /\ log[1].env.order = <<NameBA, NameA>>
  /\ log[2].op = "extract_archive"
  /\ log[2].inp = log[1].out
  /\ log[2].tree = TreeAB

\* the call extracted a stored RAR archive
ExtractsRar(c) ==
  /\ c.src.kind # "absent"
  /\ \/ c.op = "extract_archive" /\ EndsWith(c.inp, ".rar")
     \/ c.op = "rar_to_zip"

Have7z(e) == e.path \cap {"7z", "7za", "7zz"} # {}

Tried(c, strategy) == \E k \in 1..Len(Extractions(c)) : Extractions(c)[k].strategy = strategy

\* the strategy whose attempt succeeded
Winner(c) == Last(Extractions(c)).strategy

\* the exceptions that tell the caller a required executable is absent
ToolNotFound == {"RuntimeError:7zNotFound", "RuntimeError:7zRequired", "RuntimeError:RarRequired"}

\* the exceptions that tell the caller the password was rejected
WrongPassword == {"RuntimeError:BadPassword", "RarWrongPassword"}

\* C4: extracting a password-protected ZIP or 7z archive with its password
\* succeeds (given the tools the path needs), and with another password it
\* raises an error that names the password as the cause.
C4_PasswordOutcome ==
  \A i \in Calls :
    (/\ log[i].op \in {"extract_archive", "extract_7z_archive"}
     /\ log[i].src.kind \in {"zip", "7z"}
     /\ ~log[i].src.corrupt
     /\ log[i].src.enc \in {"zipcrypto", "7zaes"}
     /\ Have7z(log[i].env))
      => /\ log[i].pw = log[i].src.pw => log[i].exc = NoExc
         /\ log[i].pw \notin {NoPw, log[i].src.pw} => log[i].exc \in WrongPassword

\* C5: extracting a RAR archive tries rarfile first when the module is there,
\* calls the 7-Zip command line exactly when rarfile is absent or its attempt
\* failed, and attempts nothing after a strategy has succeeded.
C5_RarStrategyOrder ==
  \A i \in Calls :
    ExtractsRar(log[i]) =>
      LET x == Extractions(log[i])
      IN /\ x # <<>>
         /\ Tried(log[i], "rarfile") <=> log[i].env.rarfile
         /\ Tried(log[i], "rarfile") => x[1].strategy = "rarfile"
         /\ Tried(log[i], "7z") <=> (~log[i].env.rarfile \/ x[1].exc # NoExc)
         /\ \A k \in 1..Len(x) : x[k].strategy = "7z" => k = Len(x)
         /\ \A k \in 1..Len(x) : x[k].exc = NoExc => k = Len(x)
         /\ log[i].exc = NoExc <=> Last(x).exc = NoExc

\* rarfile was tried and failed, then the 7-Zip command line extracted
C5_Witness ==
  \E i \in Calls :
    /\ ExtractsRar(log[i])
    /\ log[i].op = "extract_archive"
    /\ Len(Extractions(log[i])) = 2
    /\ Extractions(log[i])[1].strategy = "rarfile"
    /\ Extractions(log[i])[1].exc # NoExc
    /\ Extractions(log[i])[2].strategy = "7z"
    /\ log[i].exc = NoExc

\* C6: the value extract_archive returns for a RAR archive tells which
\* strategy extracted it: a result won by the 7-Zip fallback differs from a
\* result won by rarfile.
C6_ResultNamesStrategy ==
  \A i, j \in Calls :
    (/\ ExtractsRar(log[i]) /\ log[i].op = "extract_archive" /\ log[i].exc = NoExc
     /\ ExtractsRar(log[j]) /\ log[j].op = "extract_archive" /\ log[j].exc = NoExc
     /\ Winner(log[i]) = "rarfile"
     /\ Winner(log[j]) = "7z")
      => log[i].val # log[j].val

\* C7: when zipfile raises while extract_archive extracts a ZIP, the 7-Zip
\* command line is tried before the call fails.
C7_ZipFallsBack ==
  \A i \in Calls :
    (/\ log[i].op = "extract_archive"
     /\ EndsWith(log[i].inp, ".zip")
     /\ Extractions(log[i])[1].strategy = "zipfile"
     /\ Extractions(log[i])[1].exc # NoExc)
      => Tried(log[i], "7z")

\* C8: extracting a RAR archive with neither a working rarfile nor a 7-Zip
\* command line raises a tool-not-found error, and a 7-Zip process that ran
\* and exited non-zero is not reported as tool-not-found.
C8_RarToolNotFound ==
  \A i \in Calls :
    ExtractsRar(log[i]) =>
      LET x == Extractions(log[i])
      IN /\ (~(log[i].env.rarfile /\ log[i].env.helper) /\ ~Have7z(log[i].env))
              => log[i].exc \in ToolNotFound
         /\ (Last(x).strategy = "7z" /\ Last(x).spawned /\ Last(x).exc # NoExc)
              => log[i].exc \notin ToolNotFound
         /\ log[i].exc \in ToolNotFound => ~Have7z(log[i].env)

\* with no rarfile helper and no 7-Zip on the path the call raised 7-Zip not
\* found
C8_Witness ==
  \E i \in Calls :
    /\ ExtractsRar(log[i])
    /\ log[i].op = "extract_archive"
    /\ ~log[i].env.helper
    /\ ~Have7z(log[i].env)
    /\ log[i].exc = "RuntimeError:7zNotFound"

\* the extraction stage of a conversion succeeded
Extracted(c) == Extractions(c) # <<>> /\ Last(Extractions(c)).exc = NoExc

Wrote(c, strategy) == \E k \in 1..Len(c.trace) : c.trace[k].strategy = strategy

\* the call creates a ZIP under a non-empty password
CreatesPasswordZip(c) ==
  \/ c.op = "create_password_protected_zip"
  \/ /\ c.op = "convert_archive_format"
     /\ Suffix(c.out) = ".zip"
     /\ c.pw # NoPw
     /\ Extracted(c)

\* C9: a ZIP with a non-empty password is written by pyminizip when it
\* imports, otherwise by the 7-Zip command line when one is on the path; the
\* call fails for a missing encoder only when neither is there.
C9_PasswordZipEncoder ==
  \A i \in Calls :
    CreatesPasswordZip(log[i]) =>
      /\ log[i].env.pyminizip => log[i].exc = NoExc /\ Wrote(log[i], "pyminizip")
      /\ (~log[i].env.pyminizip /\ Have7z(log[i].env))
           => log[i].exc = NoExc /\ Wrote(log[i], "7z-cli-write")
      /\ log[i].exc \in ToolNotFound \cup {"ModuleNotFoundError:pyminizip"}
           => ~log[i].env.pyminizip /\ ~Have7z(log[i].env)

HaveRar(e) == e.path \cap {"rar", "winrar", "WinRAR"} # {}

\* C10: a conversion to a .rar output whose extraction succeeded (with at
\* least one file) and whose deployment has the RAR command line returns the
\* output path, and on its return the output holds the extracted files.
C10_ConvertToRar ==
  \A i \in Calls :
    (/\ log[i].op = "convert_archive_format"
     /\ Suffix(log[i].out) = ".rar"
     /\ Extracted(log[i])
     /\ DOMAIN log[i].tree # {}
     /\ HaveRar(log[i].env))
      => /\ log[i].exc = NoExc
         /\ log[i].val = log[i].out
         /\ i = Len(log) => /\ files[log[i].out].kind = "rar"
                             /\ Contents(files[log[i].out]) = log[i].tree

\* the in-process writers that take a compression level, and the levels each
\* accepts
LevelRange(strategy) ==
  IF strategy = "py7zr-write" THEN Py7zrPresets ELSE PyminizipLevels

LevelWrites(c) == SelectSeq(c.trace, LAMBDA a : a.strategy \in {"py7zr-write", "pyminizip"})

\* C11: whatever level create_7z_archive, create_password_protected_zip or
\* convert_archive_format is called with, the level handed to the writer lies
\* in the range the writer accepts, and the write succeeds.
C11_LevelClamped ==
  \A i \in Calls :
    \A k \in 1..Len(LevelWrites(log[i])) :
      /\ LevelWrites(log[i])[k].level \in LevelRange(LevelWrites(log[i])[k].strategy)
      /\ LevelWrites(log[i])[k].exc = NoExc

\* the call analysed a file that exists
Analyses(c) == c.op = "analyze_archive_info" /\ c.src.kind # "absent"

\* the reader the call opened raised
ReadFailed(c) == \E k \in 1..Len(c.trace) : c.trace[k].exc # NoExc

\* a reader listed the members
ReadMembers(c) == \E k \in 1..Len(c.trace) : c.trace[k].exc = NoExc

\* C12: analysing an existing file never raises; the report always carries
\* the format and the file size; it carries an error exactly when the reader
\* raised, and also when no reader could list the members at all.
C12_PartialReport ==
  \A i \in Calls :
    Analyses(log[i]) =>
      /\ log[i].exc = NoExc
      /\ log[i].val.format = Suffix(log[i].inp)
      /\ log[i].val.size = GetSize(log[i].src)
      /\ ReadFailed(log[i]) => log[i].val.error # NoExc
      /\ log[i].val.error # NoExc => ReadFailed(log[i]) \/ ~ReadMembers(log[i])
      /\ ~ReadMembers(log[i]) => log[i].val.error # NoExc

\* C13: in every report the compression ratio is (1 - size/total) * 100 when
\* the total uncompressed size is positive, and 0 when the total is zero or
\* the read failed.
C13_RatioFormula ==
  \A i \in Calls :
    (Analyses(log[i]) /\ log[i].exc = NoExc) =>
      LET info == log[i].val
          ratio == info.compression_ratio
      IN /\ ratio.den > 0
         /\ info.total_uncompressed > 0 =>
              ratio.num * info.total_uncompressed
                = (info.total_uncompressed - info.size) * 100 * ratio.den
         /\ info.total_uncompressed = 0 => ratio.num = 0
         /\ info.error # NoExc => ratio.num = 0 /\ info.total_uncompressed = 0
         /\ (info.error = NoExc /\ ReadMembers(log[i]))
              => info.total_uncompressed = SumByteLen(log[i].src.entries)

\* a report of an archive smaller than its members, one of an archive larger
\* than its members, and one of a file no reader could open
C13_Witness ==
  \E i, j, k \in Calls :
    /\ Analyses(log[i]) /\ log[i].val.compression_ratio.num > 0
    /\ Analyses(log[j]) /\ log[j].val.compression_ratio.num < 0
    /\ Analyses(log[k]) /\ log[k].val.error # NoExc /\ log[k].val.compression_ratio.num = 0

\* C14: two analyses of the same unmodified archive return the same member
\* count, total uncompressed size and compression ratio, whatever was called
\* between them.
C14_AnalysisRepeatable ==
  \A i, j \in Calls :
    (/\ i < j
     /\ Analyses(log[i])
     /\ Analyses(log[j])
     /\ log[i].inp = log[j].inp
     /\ log[i].src = log[j].src)
      => /\ log[j].exc = log[i].exc
         /\ Len(log[j].val.files) = Len(log[i].val.files)
         /\ log[j].val.total_uncompressed = log[i].val.total_uncompressed
         /\ log[j].val.compression_ratio = log[i].val.compression_ratio

\* a RAR archive was analysed, extracted after the helper tool of rarfile
\* went away, and analysed again, and both reports list its members
C14_Witness ==
  /\ Len(log) = 3
  /\ Analyses(log[1]) /\ Analyses(log[3])
  /\ log[1].inp = InRar /\ log[3].inp = InRar
  /\ log[2].op = "extract_archive"
  /\ log[1].env.helper /\ ~log[3].env.helper
  /\ Len(log[1].val.files) = 2
  /\ Len(log[3].val.files) = 2

Detects(c) == c.op = "_detect_tool"

\* the positions of the candidates found on the search path of the call
FoundAt(c) == {k \in 1..Len(c.inp) : c.inp[k] \in c.env.path}

\* C15: _detect_tool never raises; it returns the first candidate, in list
\* order, that is on the search path, and the not-found value exactly when
\* none is (an empty list included).
C15_FirstCandidate ==
  \A i \in Calls :
    Detects(log[i]) =>
      /\ log[i].exc = NoExc
      /\ log[i].val = None <=> FoundAt(log[i]) = {}
      /\ FoundAt(log[i]) # {} =>
           \E k \in FoundAt(log[i]) :
             /\ log[i].val = <<log[i].inp[k]>>
             /\ \A j \in FoundAt(log[i]) : k <= j

\* two candidates of a list were on the path and the earlier one, not the
\* first of the list, was returned; an empty list returned not-found
C15_Witness ==
  \E i, j \in Calls :
    /\ Detects(log[i])
    /\ Cardinality(FoundAt(log[i])) = 2
    /\ 1 \notin FoundAt(log[i])
    /\ log[i].val = <<log[i].inp[2]>>
    /\ Detects(log[j])
    /\ log[j].inp = <<>>
    /\ log[j].val = None

\* C16: a later resolution of the same candidate list returns what the
\* first one returned, even when the search path changed in between.
C16_ResolutionCached ==
  \A i, j \in Calls :
    (i < j /\ Detects(log[i]) /\ Detects(log[j]) /\ log[i].inp = log[j].inp)
      => log[j].val = log[i].val

\* the path's suffix is that of one of the five kinds: ZIP, TAR, TAR.GZ, 7Z, RAR
Classified(p) == Suffix(p) \in {".zip", ".tar", ".7z", ".rar"} \/ EndsWithTarGz(p)

\* the exceptions that tell the caller the format is not supported
UnsupportedFormat ==
  {"ValueError:UnsupportedInput", "ValueError:UnsupportedOutput",
   "ValueError:UnsupportedOrMissing", "ValueError:UnsupportedExtension"}

\* C17: convert_archive_format (towards a supported output) and
\* extract_archive do not reject as unsupported an input whose suffix is one
\* of the five kinds, and reject any other input as unsupported without
\* attempting a backend.
C17_FiveKinds ==
  \A i \in Calls :
    (/\ log[i].op \in {"convert_archive_format", "extract_archive"}
     /\ log[i].op = "convert_archive_format" => Classified(log[i].out))
      => /\ Classified(log[i].inp) => log[i].exc \notin UnsupportedFormat
         /\ ~Classified(log[i].inp) => log[i].exc \in UnsupportedFormat /\ log[i].trace = <<>>

\* C18: no two calls in flight at the same time extract into the same
\* directory.
C18_StagingExclusive ==
  \A t, u \in InFlight : t # u => running[t].dir # running[u].dir

\* a call returned the path of an output file it wrote
Produced(c) == c.exc = NoExc /\ c.val \in Paths

\* C20: a file a call returned as its output exists, and a file a call read
\* as its input exists with the contents it had when it was read.
C20_FilesKept ==
  \A i \in Calls :
    /\ Produced(log[i]) => files[log[i].val].kind # "absent"
    /\ log[i].inp \in InPaths => files[log[i].inp] = log[i].src

\* the attempts of a call that ran an external archiver to write the output
CliWrites(c) == SelectSeq(c.trace, LAMBDA a : a.strategy \in {"7z-cli-write", "rar-cli"})

\* C19: an external extractor that exits non-zero fails its attempt, and the
\* call goes on to a later strategy or fails; an external archiver that exits
\* non-zero while writing the output makes the call fail with a
\* tool-not-found error.
C19_ExitCodeHandling ==
  \A i \in Calls :
    /\ \A k \in 1..Len(Extractions(log[i])) :
         (Extractions(log[i])[k].spawned /\ Extractions(log[i])[k].exc # NoExc)
           => k < Len(Extractions(log[i])) \/ log[i].exc # NoExc
    /\ \A k \in 1..Len(CliWrites(log[i])) :
         (CliWrites(log[i])[k].spawned /\ CliWrites(log[i])[k].exc # NoExc)
           => log[i].exc \in ToolNotFound

Converts(c) == c.op = "convert_archive_format"

\* C22: a conversion towards an output suffix that is not supported raises
\* the unsupported-format error before any staging directory is made and
\* before any extraction backend is tried.
C22_ClassifiedFirst ==
  \A i \in Calls :
    (Converts(log[i]) /\ Suffix(log[i].out) \notin {".zip", ".7z", ".rar"})
      => /\ log[i].exc \in UnsupportedFormat
         /\ Extractions(log[i]) = <<>>
         /\ CreatedBy(log[i]) = {}

\* the call reached the point where a RAR archive is to be written
WantsRar(c) ==
  \/ c.op = "zip_to_rar" /\ c.src.kind # "absent"
  \/ Converts(c) /\ Suffix(c.out) = ".rar" /\ Extracted(c)

\* C23: writing a RAR archive without the RAR command line on the path
\* raises a tool-not-found error, and no external archiver is run in its
\* place.
C23_RarCliRequired ==
  \A i \in Calls :
    (WantsRar(log[i]) /\ ~HaveRar(log[i].env))
      => /\ log[i].exc \in ToolNotFound
         /\ CliWrites(log[i]) = <<>>

\* C24: a stored .7z archive is extracted by py7zr alone, through
\* extract_archive, extract_7z_archive and convert_archive_format; the
\* outcome of the call is the outcome of that one attempt.
C24_SevenZipInProcess ==
  \A i \in Calls :
    (/\ log[i].op \in {"extract_archive", "extract_7z_archive", "convert_archive_format"}
     /\ Suffix(log[i].inp) = ".7z"
     /\ log[i].src.kind # "absent")
      => /\ Len(Extractions(log[i])) = 1
         /\ Extractions(log[i])[1].strategy = "py7zr"
         /\ ~Extractions(log[i])[1].spawned
         /\ Extractions(log[i])[1].exc # NoExc => log[i].exc = Extractions(log[i])[1].exc

\* the attempts of a call that wrote, or tried to write, an output archive
Writes(c) ==
  SelectSeq(c.trace, LAMBDA a : a.strategy \in {"zipfile-write", "pyminizip", "py7zr-write",
                                                "7z-cli-write", "rar-cli", "tarfile-write"})

GzipSuffixes == {".gz", ".tgz"}

\* C25: create_archive writes the TAR stream under gzip exactly when the
\* suffix of the output path is .gz (which .tar.gz has) or .tgz; a path
\* ending in .tar gets a plain TAR; a suffix other than .zip, .tar, .gz, .tgz
\* raises the unsupported-extension error and no file is written.
C25_GzipBySuffix ==
  \A i \in Calls :
    log[i].op = "create_archive"
      => /\ Suffix(log[i].out) \in GzipSuffixes \cup {".tar"}
              => /\ log[i].exc = NoExc
                 /\ i = Len(log)
                      => files[log[i].out].kind
                           = IF Suffix(log[i].out) \in GzipSuffixes THEN "tar.gz" ELSE "tar"
         /\ Suffix(log[i].out) \notin GzipSuffixes \cup {".tar", ".zip"}
              => /\ log[i].exc = "ValueError:UnsupportedExtension"
                 /\ Writes(log[i]) = <<>>
                 /\ (i = Len(log) /\ \A j \in 1..(i - 1) : log[j].out # log[i].out)
                      => files[log[i].out].kind = "absent"

\* a .tgz output was written under gzip after a .tar output was written plain
C25_Witness ==
  /\ Len(log) = 2
  /\ log[1].op = "create_archive" /\ log[1].out = OutTar /\ log[1].exc = NoExc
  /\ log[2].op = "create_archive" /\ log[2].out = OutTgz /\ log[2].exc = NoExc
  /\ files[OutTar].kind = "tar"
  /\ files[OutTgz].kind = "tar.gz"

\* a method of the ArchiveConverters object that returned normally
InstanceCall(c, op) == c.op = op /\ c.exc = NoExc

\* C29: a destroyed ArchiveConverters object has removed its output directory
\* exactly when it made the directory itself; a directory the caller supplied
\* still exists after the methods and the destructor ran, with the converted
\* ZIP and every extracted file the methods left in it.
C29_OwnedDirOnly ==
  /\ inst.state = "live" => inst.exists
  /\ inst.state = "gone" => inst.exists = ~inst.owns
  /\ (inst.state = "gone" /\ inst.owns)
       => files[ConvertedZip] = NoFile /\ inst.extracted = EmptyTree
  /\ (inst.state # "none" /\ ~inst.owns)
       => \A i \in Calls :
            /\ InstanceCall(log[i], "ArchiveConverters.rar_to_zip")
                 => files[ConvertedZip].kind # "absent"
            /\ InstanceCall(log[i], "ArchiveConverters.extract_archive")
                 => \A n \in DOMAIN log[i].tree : n \in DOMAIN inst.extracted

\* an object given its directory was destroyed after it converted into the
\* directory and extracted into it
C29_Witness ==
  /\ inst.state = "gone" /\ ~inst.owns /\ inst.exists
  /\ files[ConvertedZip].kind # "absent"
  /\ inst.extracted # EmptyTree
  /\ \E i \in Calls : InstanceCall(log[i], "ArchiveConverters.rar_to_zip")
  /\ \E i \in Calls : InstanceCall(log[i], "ArchiveConverters.extract_archive")

\* C21: a call that writes an output archive where the directory of the
\* output path is missing succeeds as it does where the directory exists:
\* the directory has been made and the output file is in it.
C21_ParentCreated ==
  \A i \in Calls :
    (log[i].missing /\ log[i].out \in NewPaths)
      => /\ log[i].exc = NoExc
         /\ i = Len(log)
              => /\ Parent(log[i].out) \in parents
                 /\ files[log[i].out].kind # "absent"

\* the requests to the archive routes
RouteOps ==
  {"create_zip_archive", "extract_archive_route", "convert_archive_format_route",
   "analyze_archive_route"}

\* C26: when an archive route has returned its response, whatever the core
\* call did, the upload it saved is gone and so is every temporary
\* directory it made.
C26_RouteReleases ==
  \A i \in Calls :
    log[i].op \in RouteOps
      => /\ log[i].tmpAfter \cap CreatedBy(log[i]) = {}
         /\ log[i].inp \in UploadPaths => files[log[i].inp].kind = "absent"

\* the call extracts a sound RAR archive, with the password it needs, where
\* the rarfile module and the unrar on the search path are both there
RarRequestWithHelper(c) ==
  /\ c.op \in {"extract_archive", "rar_to_zip"}
  /\ Suffix(c.inp) = ".rar"
  /\ c.src.kind = "rar" /\ ~c.src.corrupt
  /\ c.src.enc = "none" \/ c.pw = c.src.pw
  /\ c.env.rarfile /\ c.env.helper

\* the rarfile attempt of such a call succeeded
RarfileServed(c) ==
  /\ Extractions(c) # <<>>
  /\ Extractions(c)[1].strategy = "rarfile"
  /\ Extractions(c)[1].exc = NoExc

\* every such request is served by rarfile, whatever the requests before it
\* left configured
RequestsIndependent ==
  \A i \in Calls : RarRequestWithHelper(log[i]) => RarfileServed(log[i])

\* C27: no core operation writes process-wide state other than a tool
\* cache: rarfile.UNRAR_TOOL keeps the value the module gave it, and the
\* outcome of a request does not depend on what an earlier request configured.
C27_NoSharedConfiguration ==
  /\ UNRAR_TOOL = DefaultUnrarTool
  /\ RequestsIndependent

\* the pieces, laid end to end, are the file of the given length
Rejoined(pieces, size) ==
  /\ pieces = <<>> => size = 0
  /\ pieces # <<>> => pieces[1].from = 0 /\ pieces[Len(pieces)].to = size
  /\ \A k \in 1..(Len(pieces) - 1) : pieces[k + 1].from = pieces[k].to

\* C28: whatever the length of the file and the part size, every part
\* split_archive writes but the last has part_size bytes and the last has
\* between 1 and part_size, and merge_archive_parts applied to the list
\* split_archive returned writes the bytes of the file in their order, also
\* when there are more than 999 parts.
C28_SplitMergeIdentity ==
  \A i \in Calls :
    /\ log[i].op = "split_archive"
         => \A k \in 1..Len(log[i].val) :
              LET n == log[i].val[k].to - log[i].val[k].from
              IN IF k < Len(log[i].val)
                 THEN n = log[i].part_size_mb * MiB
                 ELSE n >= 1 /\ n <= log[i].part_size_mb * MiB
    /\ log[i].op = "merge_archive_parts" => Rejoined(log[i].val, log[i].size)

====
